---- MODULE Spec2Model ----
(***************************************************************************)
(* State-machine model of upgraded_datascience.py: a console program that  *)
(* keeps a table users(id, name, age, iq, bench_press) in an SQLite file   *)
(* and drives create / delete / update / read-all / statistics / scatter   *)
(* from a seven-entry text menu.                                           *)
(*                                                                         *)
(* The program is single threaded.  pc is the position of the interpreter: *)
(* either a call of input() on which the program blocks, or a statement,   *)
(* commit, rollback or close that is about to run.  A line of operator     *)
(* input is a sequence of characters.  Every statement and every commit    *)
(* may fail for reasons outside the program: a commit or a read of the     *)
(* whole table fails or not (fault = TRUE), a statement of create, delete  *)
(* or update fails when it is compiled or when it is run (Faults).         *)
(* input() always delivers a line: end-of-file on stdin is not modelled.   *)
(* No other process writes to the table or to the working directory while  *)
(* the program runs, and savefig and plt.show() succeed.                   *)
(*                                                                         *)
(* A local variable of a function is part of the state from its assignment *)
(* to its last read.  The loops of add_new_user, delete_user and           *)
(* update_user assign every local again before reading it, so a local is   *)
(* dropped (set back to its initial value) when the loop continues, breaks *)
(* or the function returns.                                                *)
(*                                                                         *)
(* Spec is the whole program, run any number of times on the same database *)
(* file in a working directory that holds no scatter file at first.        *)
(* ScatterSpec is draw_scatter alone: it starts at the menu with one row   *)
(* stored and any set of scatter files present.                            *)
(***************************************************************************)
EXTENDS Integers, Sequences, FiniteSets, TLC

\* ------------------------------------------------------------------ bounds
\* Number of rows the model lets the operator create (caps sqlite_sequence).
MaxCreates == 2
\* Number of figures the model lets the operator save.
MaxSaves == 2

\* ------------------------------------------------------- text and integers
\* A character is a one-character string where TLA+ can write one (printable
\* ASCII, "\t", "\n", "\f", "\r"); any other character is named by its code
\* point, "U+" and four or five upper-case hexadecimal digits.

\* The characters str.strip() removes: those for which str.isspace() holds.
Whitespace == {
    "\t", "\n", "U+000B", "\f", "\r", "U+001C", "U+001D", "U+001E",
    "U+001F", " ", "U+0085", "U+00A0", "U+1680", "U+2000", "U+2001",
    "U+2002", "U+2003", "U+2004", "U+2005", "U+2006", "U+2007", "U+2008",
    "U+2009", "U+200A", "U+2028", "U+2029", "U+202F", "U+205F", "U+3000" }

\* The characters int() skips around a number: the separators U+001C..U+001F
\* are white space to str.strip() and not to int().
IntWhitespace == Whitespace \ {"U+001C", "U+001D", "U+001E", "U+001F"}

\* The decimal digits int() accepts (Unicode category Nd), one tuple per
\* script, in the order of their values 0..9.
DecimalDigits == {
    <<"0", "1", "2", "3", "4", "5", "6", "7", "8", "9">>,
    <<"U+0660", "U+0661", "U+0662", "U+0663", "U+0664",
      "U+0665", "U+0666", "U+0667", "U+0668", "U+0669">>,
    <<"U+06F0", "U+06F1", "U+06F2", "U+06F3", "U+06F4",
      "U+06F5", "U+06F6", "U+06F7", "U+06F8", "U+06F9">>,
    <<"U+07C0", "U+07C1", "U+07C2", "U+07C3", "U+07C4",
      "U+07C5", "U+07C6", "U+07C7", "U+07C8", "U+07C9">>,
    <<"U+0966", "U+0967", "U+0968", "U+0969", "U+096A",
      "U+096B", "U+096C", "U+096D", "U+096E", "U+096F">>,
    <<"U+09E6", "U+09E7", "U+09E8", "U+09E9", "U+09EA",
      "U+09EB", "U+09EC", "U+09ED", "U+09EE", "U+09EF">>,
    <<"U+0A66", "U+0A67", "U+0A68", "U+0A69", "U+0A6A",
      "U+0A6B", "U+0A6C", "U+0A6D", "U+0A6E", "U+0A6F">>,
    <<"U+0AE6", "U+0AE7", "U+0AE8", "U+0AE9", "U+0AEA",
      "U+0AEB", "U+0AEC", "U+0AED", "U+0AEE", "U+0AEF">>,
    <<"U+0B66", "U+0B67", "U+0B68", "U+0B69", "U+0B6A",
      "U+0B6B", "U+0B6C", "U+0B6D", "U+0B6E", "U+0B6F">>,
    <<"U+0BE6", "U+0BE7", "U+0BE8", "U+0BE9", "U+0BEA",
      "U+0BEB", "U+0BEC", "U+0BED", "U+0BEE", "U+0BEF">>,
    <<"U+0C66", "U+0C67", "U+0C68", "U+0C69", "U+0C6A",
      "U+0C6B", "U+0C6C", "U+0C6D", "U+0C6E", "U+0C6F">>,
    <<"U+0CE6", "U+0CE7", "U+0CE8", "U+0CE9", "U+0CEA",
      "U+0CEB", "U+0CEC", "U+0CED", "U+0CEE", "U+0CEF">>,
    <<"U+0D66", "U+0D67", "U+0D68", "U+0D69", "U+0D6A",
      "U+0D6B", "U+0D6C", "U+0D6D", "U+0D6E", "U+0D6F">>,
    <<"U+0DE6", "U+0DE7", "U+0DE8", "U+0DE9", "U+0DEA",
      "U+0DEB", "U+0DEC", "U+0DED", "U+0DEE", "U+0DEF">>,
    <<"U+0E50", "U+0E51", "U+0E52", "U+0E53", "U+0E54",
      "U+0E55", "U+0E56", "U+0E57", "U+0E58", "U+0E59">>,
    <<"U+0ED0", "U+0ED1", "U+0ED2", "U+0ED3", "U+0ED4",
      "U+0ED5", "U+0ED6", "U+0ED7", "U+0ED8", "U+0ED9">>,
    <<"U+0F20", "U+0F21", "U+0F22", "U+0F23", "U+0F24",
      "U+0F25", "U+0F26", "U+0F27", "U+0F28", "U+0F29">>,
    <<"U+1040", "U+1041", "U+1042", "U+1043", "U+1044",
      "U+1045", "U+1046", "U+1047", "U+1048", "U+1049">>,
    <<"U+1090", "U+1091", "U+1092", "U+1093", "U+1094",
      "U+1095", "U+1096", "U+1097", "U+1098", "U+1099">>,
    <<"U+17E0", "U+17E1", "U+17E2", "U+17E3", "U+17E4",
      "U+17E5", "U+17E6", "U+17E7", "U+17E8", "U+17E9">>,
    <<"U+1810", "U+1811", "U+1812", "U+1813", "U+1814",
      "U+1815", "U+1816", "U+1817", "U+1818", "U+1819">>,
    <<"U+1946", "U+1947", "U+1948", "U+1949", "U+194A",
      "U+194B", "U+194C", "U+194D", "U+194E", "U+194F">>,
    <<"U+19D0", "U+19D1", "U+19D2", "U+19D3", "U+19D4",
      "U+19D5", "U+19D6", "U+19D7", "U+19D8", "U+19D9">>,
    <<"U+1A80", "U+1A81", "U+1A82", "U+1A83", "U+1A84",
      "U+1A85", "U+1A86", "U+1A87", "U+1A88", "U+1A89">>,
    <<"U+1A90", "U+1A91", "U+1A92", "U+1A93", "U+1A94",
      "U+1A95", "U+1A96", "U+1A97", "U+1A98", "U+1A99">>,
    <<"U+1B50", "U+1B51", "U+1B52", "U+1B53", "U+1B54",
      "U+1B55", "U+1B56", "U+1B57", "U+1B58", "U+1B59">>,
    <<"U+1BB0", "U+1BB1", "U+1BB2", "U+1BB3", "U+1BB4",
      "U+1BB5", "U+1BB6", "U+1BB7", "U+1BB8", "U+1BB9">>,
    <<"U+1C40", "U+1C41", "U+1C42", "U+1C43", "U+1C44",
      "U+1C45", "U+1C46", "U+1C47", "U+1C48", "U+1C49">>,
    <<"U+1C50", "U+1C51", "U+1C52", "U+1C53", "U+1C54",
      "U+1C55", "U+1C56", "U+1C57", "U+1C58", "U+1C59">>,
    <<"U+A620", "U+A621", "U+A622", "U+A623", "U+A624",
      "U+A625", "U+A626", "U+A627", "U+A628", "U+A629">>,
    <<"U+A8D0", "U+A8D1", "U+A8D2", "U+A8D3", "U+A8D4",
      "U+A8D5", "U+A8D6", "U+A8D7", "U+A8D8", "U+A8D9">>,
    <<"U+A900", "U+A901", "U+A902", "U+A903", "U+A904",
      "U+A905", "U+A906", "U+A907", "U+A908", "U+A909">>,
    <<"U+A9D0", "U+A9D1", "U+A9D2", "U+A9D3", "U+A9D4",
      "U+A9D5", "U+A9D6", "U+A9D7", "U+A9D8", "U+A9D9">>,
    <<"U+A9F0", "U+A9F1", "U+A9F2", "U+A9F3", "U+A9F4",
      "U+A9F5", "U+A9F6", "U+A9F7", "U+A9F8", "U+A9F9">>,
    <<"U+AA50", "U+AA51", "U+AA52", "U+AA53", "U+AA54",
      "U+AA55", "U+AA56", "U+AA57", "U+AA58", "U+AA59">>,
    <<"U+ABF0", "U+ABF1", "U+ABF2", "U+ABF3", "U+ABF4",
      "U+ABF5", "U+ABF6", "U+ABF7", "U+ABF8", "U+ABF9">>,
    <<"U+FF10", "U+FF11", "U+FF12", "U+FF13", "U+FF14",
      "U+FF15", "U+FF16", "U+FF17", "U+FF18", "U+FF19">>,
    <<"U+104A0", "U+104A1", "U+104A2", "U+104A3", "U+104A4",
      "U+104A5", "U+104A6", "U+104A7", "U+104A8", "U+104A9">>,
    <<"U+10D30", "U+10D31", "U+10D32", "U+10D33", "U+10D34",
      "U+10D35", "U+10D36", "U+10D37", "U+10D38", "U+10D39">>,
    <<"U+11066", "U+11067", "U+11068", "U+11069", "U+1106A",
      "U+1106B", "U+1106C", "U+1106D", "U+1106E", "U+1106F">>,
    <<"U+110F0", "U+110F1", "U+110F2", "U+110F3", "U+110F4",
      "U+110F5", "U+110F6", "U+110F7", "U+110F8", "U+110F9">>,
    <<"U+11136", "U+11137", "U+11138", "U+11139", "U+1113A",
      "U+1113B", "U+1113C", "U+1113D", "U+1113E", "U+1113F">>,
    <<"U+111D0", "U+111D1", "U+111D2", "U+111D3", "U+111D4",
      "U+111D5", "U+111D6", "U+111D7", "U+111D8", "U+111D9">>,
    <<"U+112F0", "U+112F1", "U+112F2", "U+112F3", "U+112F4",
      "U+112F5", "U+112F6", "U+112F7", "U+112F8", "U+112F9">>,
    <<"U+11450", "U+11451", "U+11452", "U+11453", "U+11454",
      "U+11455", "U+11456", "U+11457", "U+11458", "U+11459">>,
    <<"U+114D0", "U+114D1", "U+114D2", "U+114D3", "U+114D4",
      "U+114D5", "U+114D6", "U+114D7", "U+114D8", "U+114D9">>,
    <<"U+11650", "U+11651", "U+11652", "U+11653", "U+11654",
      "U+11655", "U+11656", "U+11657", "U+11658", "U+11659">>,
    <<"U+116C0", "U+116C1", "U+116C2", "U+116C3", "U+116C4",
      "U+116C5", "U+116C6", "U+116C7", "U+116C8", "U+116C9">>,
    <<"U+11730", "U+11731", "U+11732", "U+11733", "U+11734",
      "U+11735", "U+11736", "U+11737", "U+11738", "U+11739">>,
    <<"U+118E0", "U+118E1", "U+118E2", "U+118E3", "U+118E4",
      "U+118E5", "U+118E6", "U+118E7", "U+118E8", "U+118E9">>,
    <<"U+11950", "U+11951", "U+11952", "U+11953", "U+11954",
      "U+11955", "U+11956", "U+11957", "U+11958", "U+11959">>,
    <<"U+11C50", "U+11C51", "U+11C52", "U+11C53", "U+11C54",
      "U+11C55", "U+11C56", "U+11C57", "U+11C58", "U+11C59">>,
    <<"U+11D50", "U+11D51", "U+11D52", "U+11D53", "U+11D54",
      "U+11D55", "U+11D56", "U+11D57", "U+11D58", "U+11D59">>,
    <<"U+11DA0", "U+11DA1", "U+11DA2", "U+11DA3", "U+11DA4",
      "U+11DA5", "U+11DA6", "U+11DA7", "U+11DA8", "U+11DA9">>,
    <<"U+16A60", "U+16A61", "U+16A62", "U+16A63", "U+16A64",
      "U+16A65", "U+16A66", "U+16A67", "U+16A68", "U+16A69">>,
    <<"U+16AC0", "U+16AC1", "U+16AC2", "U+16AC3", "U+16AC4",
      "U+16AC5", "U+16AC6", "U+16AC7", "U+16AC8", "U+16AC9">>,
    <<"U+16B50", "U+16B51", "U+16B52", "U+16B53", "U+16B54",
      "U+16B55", "U+16B56", "U+16B57", "U+16B58", "U+16B59">>,
    <<"U+1D7CE", "U+1D7CF", "U+1D7D0", "U+1D7D1", "U+1D7D2",
      "U+1D7D3", "U+1D7D4", "U+1D7D5", "U+1D7D6", "U+1D7D7">>,
    <<"U+1D7D8", "U+1D7D9", "U+1D7DA", "U+1D7DB", "U+1D7DC",
      "U+1D7DD", "U+1D7DE", "U+1D7DF", "U+1D7E0", "U+1D7E1">>,
    <<"U+1D7E2", "U+1D7E3", "U+1D7E4", "U+1D7E5", "U+1D7E6",
      "U+1D7E7", "U+1D7E8", "U+1D7E9", "U+1D7EA", "U+1D7EB">>,
    <<"U+1D7EC", "U+1D7ED", "U+1D7EE", "U+1D7EF", "U+1D7F0",
      "U+1D7F1", "U+1D7F2", "U+1D7F3", "U+1D7F4", "U+1D7F5">>,
    <<"U+1D7F6", "U+1D7F7", "U+1D7F8", "U+1D7F9", "U+1D7FA",
      "U+1D7FB", "U+1D7FC", "U+1D7FD", "U+1D7FE", "U+1D7FF">>,
    <<"U+1E140", "U+1E141", "U+1E142", "U+1E143", "U+1E144",
      "U+1E145", "U+1E146", "U+1E147", "U+1E148", "U+1E149">>,
    <<"U+1E2F0", "U+1E2F1", "U+1E2F2", "U+1E2F3", "U+1E2F4",
      "U+1E2F5", "U+1E2F6", "U+1E2F7", "U+1E2F8", "U+1E2F9">>,
    <<"U+1E950", "U+1E951", "U+1E952", "U+1E953", "U+1E954",
      "U+1E955", "U+1E956", "U+1E957", "U+1E958", "U+1E959">>,
    <<"U+1FBF0", "U+1FBF1", "U+1FBF2", "U+1FBF3", "U+1FBF4",
      "U+1FBF5", "U+1FBF6", "U+1FBF7", "U+1FBF8", "U+1FBF9">> }

Digits == UNION { {b[i] : i \in 1..10} : b \in DecimalDigits }

\* The value of every digit.
DigitValues ==
    [c \in Digits |-> CHOOSE v \in 0..9 : \E b \in DecimalDigits : b[v + 1] = c]

DigitVal(c) == DigitValues[c]

RECURSIVE lstrip(_, _)
lstrip(s, chars) ==
    IF s # <<>> /\ Head(s) \in chars THEN lstrip(Tail(s), chars) ELSE s

RECURSIVE rstrip(_, _)
rstrip(s, chars) ==
    IF s # <<>> /\ s[Len(s)] \in chars
    THEN rstrip(SubSeq(s, 1, Len(s) - 1), chars)
    ELSE s

\* str.strip()
strip(s) == rstrip(lstrip(s, Whitespace), Whitespace)

\* str.lower() on the letters the program compares with
LowerChar(c) == IF c = "Y" THEN "y" ELSE IF c = "N" THEN "n" ELSE c
lower(s) == [i \in 1..Len(s) |-> LowerChar(s[i])]

RECURSIVE StripZeros(_)
StripZeros(m) ==
    IF m # <<>> /\ Head(m) = 0 THEN StripZeros(Tail(m)) ELSE m

\* A Python int is unbounded: sign and magnitude (decimal digits, most
\* significant first, no leading zero; zero has the empty magnitude).
PyInt(neg, mag) == [neg |-> neg /\ mag # <<>>, mag |-> mag]
Zero == PyInt(FALSE, <<>>)
One == PyInt(FALSE, <<1>>)

\* sys.int_info.default_max_str_digits: int() refuses a text of more digits
\* (leading zeros count; sign, underscores and white space do not).
int_max_str_digits == 4300

\* The longest prefix of s made of digits and underscores: what int() scans
\* before it counts the digits.
DigitRun(s) ==
    LET other == {i \in 1..Len(s) : s[i] \notin Digits \cup {"_"}}
    IN  IF other = {} THEN s
        ELSE SubSeq(s, 1, (CHOOSE i \in other : \A j \in other : i <= j) - 1)

\* int(text): optional surrounding whitespace, optional sign, then digits
\* that may be grouped by single underscores.  ok = FALSE is ValueError and
\* err is what its text says: a run of correctly grouped digits longer than
\* int_max_str_digits is refused for its length, whatever follows it.
int(s) ==
    LET t == rstrip(lstrip(s, IntWhitespace), IntWhitespace)
        signed == t # <<>> /\ Head(t) \in {"+", "-"}
        body == IF signed THEN Tail(t) ELSE t
        run == DigitRun(body)
        grouped ==
            /\ run # <<>>
            /\ run[1] \in Digits
            /\ run[Len(run)] \in Digits
            /\ \A i \in 1..(Len(run) - 1) : ~(run[i] = "_" /\ run[i + 1] = "_")
        digs == SelectSeq(run, LAMBDA c : c \in Digits)
        mag == StripZeros([i \in 1..Len(digs) |-> DigitVal(digs[i])])
    IN  IF grouped /\ Len(digs) > int_max_str_digits
        THEN [ok |-> FALSE, val |-> Zero, err |-> "limit"]
        ELSE IF grouped /\ run = body
        THEN [ok |-> TRUE, val |-> PyInt(signed /\ Head(t) = "-", mag),
              err |-> "none"]
        ELSE [ok |-> FALSE, val |-> Zero, err |-> "literal"]

\* print(f"Invalid input: {e}. Please try again") for the ValueError of int():
\* the quoted line and the digit count the texts end with are left out.
InvalidInt(p) ==
    IF p.err = "limit"
    THEN "Invalid input: Exceeds the limit (4300 digits) for integer string conversion. Please try again"
    ELSE "Invalid input: invalid literal for int(). Please try again"

\* Variant: the test n < 0 in place of n <= 0.
LeqZeroOffByOne(n) == n.neg

\* n <= 0, n < 0 on Python ints
LeqZero(n) == n.neg \/ n.mag = <<>>
LtZero(n) == n.neg

RECURSIVE LexLeq(_, _)
LexLeq(a, b) ==
    \/ a = <<>>
    \/ Head(a) < Head(b)
    \/ Head(a) = Head(b) /\ LexLeq(Tail(a), Tail(b))

\* Largest magnitudes of a signed 64-bit SQLite INTEGER.
Int64MaxMag == <<9, 2, 2, 3, 3, 7, 2, 0, 3, 6, 8, 5, 4, 7, 7, 5, 8, 0, 7>>
Int64MinMag == <<9, 2, 2, 3, 3, 7, 2, 0, 3, 6, 8, 5, 4, 7, 7, 5, 8, 0, 8>>

\* Binding a Python int as a statement parameter raises OverflowError
\* unless it fits a signed 64-bit integer.
FitsInt64(n) ==
    LET lim == IF n.neg THEN Int64MinMag ELSE Int64MaxMag
    IN  \/ Len(n.mag) < Len(lim)
        \/ Len(n.mag) = Len(lim) /\ LexLeq(n.mag, lim)

RECURSIVE MagValue(_)
MagValue(m) ==
    IF m = <<>> THEN 0
    ELSE 10 * MagValue(SubSeq(m, 1, Len(m) - 1)) + m[Len(m)]

\* The rowid a bound id names (ids are counted by the table, so the model
\* keeps them as integers).
IntValue(n) == IF n.neg THEN 0 - MagValue(n.mag) ELSE MagValue(n.mag)

\* ------------------------------------------------------------ operator input
BigNumber == <<"9", "2", "2", "3", "3", "7", "2", "0", "3", "6", "8", "5",
               "4", "7", "7", "5", "8", "0", "8">>

MenuLines == { <<"1">>, <<"2">>, <<" ", "3">>, <<"4">>, <<"5">>, <<"6">>,
               <<"7", "\r">>, <<"8">>, <<"0", "1">>, <<>> }
\* "U+DCFF" is a lone surrogate, as input() delivers for an undecodable byte.
NameLines == { <<>>, <<"U+001F">>, <<"\f", "a", "U+00A0">>, <<"b">>,
               <<"U+DCFF">> }
NumberLines == { <<>>, <<"x">>, <<"-", "1">>, <<"0">>, <<"1">>,
                 <<"\f", "U+0661">>, BigNumber }
IqLines == { <<>>, <<"U+001C", "1">>, <<"-", "1">>, <<"0">>, <<"1">>,
             <<" ", "U+0661", "\r">> }
BenchLines == { <<"1", ".", "0">>, <<"-", "1">>, <<"0">>, <<"1", "U+0085">>,
                BigNumber }
IdLines == { <<"x">>, <<"1">>, <<"+", "2">>, <<"0", "3">>, <<"U+FF14">>,
             BigNumber }
ChoiceLines == { <<"1">>, <<" ", "2">>, <<"3">>, <<"4", "\r">>, <<"5">>, <<>> }
SaveLines == { <<"y">>, <<"\t", "Y">>, <<"n">>, <<>> }

\* ------------------------------------------------------------------- state
VARIABLES
    pc,             \* position of the program
    tableExists,    \* the database file holds the users table
    users,          \* committed rows of users
    seq,            \* sqlite_sequence entry of users (AUTOINCREMENT)
    conn,           \* connection opened by add/delete/update_user
    rconn,          \* read_db's own connection is open
    caller,         \* who called read_db, while the call lasts
    df,             \* DataFrame returned by read_db (rows in rowid order)
    choice,         \* main: last menu choice
    name, age, iq, bench_press,     \* add_new_user locals
    user_id,        \* delete_user / update_user local
    update_choice,  \* update_user local
    new_value,      \* update_user: new_bench_press / new_iq / new_age
    new_name,       \* update_user local
    out,            \* what the last step printed
    stmt,           \* last statement run on conn
    assigned,       \* history: ids of all rows ever committed by a create
    deleted,        \* history: ids of all rows ever removed by a delete
    opStart,        \* history: users when the current operation started
    exc,            \* exception raised and not yet handled ("none" if none)
    report,         \* figures show_statistics printed in the last step
    plot,           \* the matplotlib figure, from plt.figure to plt.show
    files,          \* names that exist in the working directory
    filename,       \* get_unique_filename: candidate name
    counter,        \* get_unique_filename: local counter
    saved           \* history: number of figures saved so far

vars == <<pc, tableExists, users, seq, conn, rconn, caller, df, choice,
          name, age, iq, bench_press, user_id, update_choice, new_value,
          new_name, out, stmt, assigned, deleted, opStart, exc, report,
          plot, files, filename, counter, saved>>

dbVars == <<tableExists, users, seq>>
addLocals == <<name, age, iq, bench_press>>
updLocals == <<user_id, update_choice, new_value, new_name>>

\* The locals of a function that has left the iteration that set them.
DropAddLocals ==
    /\ name' = <<>>
    /\ age' = Zero
    /\ iq' = Zero
    /\ bench_press' = Zero

DropUpdLocals ==
    /\ user_id' = Zero
    /\ update_choice' = <<>>
    /\ new_value' = Zero
    /\ new_name' = <<>>
history == <<assigned, deleted, opStart>>
fileVars == <<files, filename, counter, saved>>

\* ------------------------------------------------------------ the database
Ids(rows) == {r.id : r \in rows}

\* A row of users: id is the rowid; age, iq and bench_press hold the Python
\* ints that were bound (SQLite stores them as 64-bit integers).
Row(id, n, a, i, b) ==
    [id |-> id, name |-> n, age |-> a, iq |-> i, bench_press |-> b]

\* The CHECK constraints of CREATE TABLE (NOT NULL holds of every str):
\* age > 0, iq > 0, bench_press >= 0 on the stored integers.
CheckConstraints(r) ==
    /\ ~r.age.neg /\ r.age.mag # <<>>
    /\ ~r.iq.neg /\ r.iq.mag # <<>>
    /\ ~r.bench_press.neg

SetMax(S) == CHOOSE m \in S : \A x \in S : x <= m

\* Variant: INTEGER PRIMARY KEY without AUTOINCREMENT, one more than the
\* largest rowid now in the table.
NextIdReused(rows, s) == IF rows = {} THEN 1 ELSE SetMax(Ids(rows)) + 1

\* INTEGER PRIMARY KEY AUTOINCREMENT: one more than the largest rowid the
\* table has ever held.
NextId(rows, s) ==
    IF rows = {} THEN s + 1
    ELSE IF SetMax(Ids(rows)) > s THEN SetMax(Ids(rows)) + 1 ELSE s + 1

\* SELECT * FROM users: rows in rowid order.
RECURSIVE SelectAll(_)
SelectAll(rows) ==
    IF rows = {} THEN <<>>
    ELSE LET r == CHOOSE r \in rows : \A q \in rows : r.id <= q.id
         IN  <<r>> \o SelectAll(rows \ {r})

\* SELECT COUNT(*) FROM users WHERE id=?
SelectCount(rows, id) == Cardinality({r \in rows : r.id = id})

\* Variant: DELETE FROM users, the WHERE clause left out.
DeleteFromAll(rows, id) == {}

\* DELETE FROM users WHERE id=?
DeleteFrom(rows, id) == {r \in rows : r.id # id}

\* Variant: UPDATE users SET <column> = ?, the WHERE clause left out.
UpdateSetAll(rows, column, value, id) ==
    {[r EXCEPT ![column] = value] : r \in rows}

\* UPDATE users SET <column> = ? WHERE id = ?
UpdateSet(rows, column, value, id) ==
    {IF r.id = id THEN [r EXCEPT ![column] = value] ELSE r : r \in rows}

\* sqlite3.connect(): a closed connection carries no transaction.
Closed == [open |-> FALSE, in_transaction |-> FALSE, users |-> {}, seq |-> 0]
Opened == [Closed EXCEPT !.open = TRUE]

\* The implicit BEGIN the sqlite3 module issues before INSERT/UPDATE/DELETE.
Begin(c) ==
    IF c.in_transaction THEN c
    ELSE [c EXCEPT !.in_transaction = TRUE, !.users = users, !.seq = seq]

\* The connection once its transaction has ended.
EndTransaction(c) ==
    [c EXCEPT !.in_transaction = FALSE, !.users = {}, !.seq = 0]

\* conn.rollback(): the uncommitted changes are dropped.
Rollback(c) == EndTransaction(c)

\* A statement handed to the engine: its kind, the columns it writes and
\* the parameters given for them (a str for name, a Python int for the
\* others).
Statement(sql, sets, n, a, i, b) ==
    [sql |-> sql, sets |-> sets, name |-> n, age |-> a, iq |-> i,
     bench_press |-> b]
NoStmt == Statement("none", {}, <<>>, Zero, Zero, Zero)

\* U+D800..U+DFFF: a str holding one of them has no UTF-8 encoding.
HexDigits == {"0", "1", "2", "3", "4", "5", "6", "7", "8", "9",
              "A", "B", "C", "D", "E", "F"}
Surrogates ==
    { "U+D" \o a \o b \o c :
        a \in {"8", "9", "A", "B", "C", "D", "E", "F"},
        b \in HexDigits, c \in HexDigits }

\* Binding a str as a statement parameter encodes it as UTF-8 and raises
\* UnicodeEncodeError, a ValueError, when it holds a surrogate.
Encodable(s) == \A i \in 1..Len(s) : s[i] \notin Surrogates

\* Rows a connection sees: its own uncommitted changes included.
Visible(c) == IF c.in_transaction THEN c.users ELSE users

\* cursor.execute(sql, parameters) goes through four stages: the statement is
\* compiled, the implicit BEGIN is issued (INSERT/UPDATE/DELETE outside a
\* transaction), the parameters are bound in their order, the statement is
\* run.  The engine may fail for reasons outside the program in the first
\* stage ("prepare": the file is locked exclusively and the schema cannot be
\* read) or in the last ("step": the file is locked for writing, the disk is
\* full, ...).
Faults == {"none", "prepare", "step"}

\* conn has read the schema: it has compiled a statement before.  The first
\* statement of a connection reads the schema from the file; later ones are
\* compiled from the copy the connection keeps.
SchemaLoaded == conn.in_transaction \/ stmt.sql # "none"

\* The statement is refused when it is compiled, before BEGIN: the schema
\* has to be read and cannot be, or it holds no table users.
CompileFails(fault) == ~SchemaLoaded /\ (fault = "prepare" \/ ~tableExists)

\* The compiled statement fails when it is run, after BEGIN and the binding
\* of the parameters: a fault, or the table the connection knew is gone.
StepFails(fault) == fault = "step" \/ ~tableExists

\* ---------------------------------------------------------------- messages
MenuPrompt == "Choose an option (1-7): "
NamePrompt == "Name (Name_Lastname): "
DeletePrompt == "Enter user id to delete: "
UpdatePrompt == "Enter user id to update: "
FieldPrompt == "Choose an option (1-4): "

\* Nothing printed by show_statistics; no figure.
NoReport == [count |-> 0, mean_age |-> <<>>, mean_iq |-> <<>>,
             mean_bench_press |-> <<>>,
             max_bench_press |-> Zero, min_bench_press |-> Zero]
NoPlot == [points |-> <<>>, annotated |-> FALSE]

Init ==
    /\ pc = "start"
    /\ tableExists \in BOOLEAN
    /\ users = {}
    /\ seq = 0
    /\ conn = Closed
    /\ rconn = FALSE
    /\ caller = "none"
    /\ df = <<>>
    /\ choice = <<>>
    /\ name = <<>>
    /\ age = Zero
    /\ iq = Zero
    /\ bench_press = Zero
    /\ user_id = Zero
    /\ update_choice = <<>>
    /\ new_value = Zero
    /\ new_name = <<>>
    /\ out = <<>>
    /\ stmt = NoStmt
    /\ assigned = {}
    /\ deleted = {}
    /\ opStart = {}
    /\ exc = "none"
    /\ report = NoReport
    /\ plot = NoPlot
    /\ files = {}
    /\ filename = <<>>
    /\ counter = 0
    /\ saved = 0
\* Variant: DROP TABLE IF EXISTS users followed by CREATE TABLE users.
initialize_database_recreates ==
    /\ pc = "start"
    /\ tableExists' = TRUE
    /\ users' = {}
    /\ seq' = 0
    /\ pc' = "menu"
    /\ out' = <<"=== User Database Manager ===", MenuPrompt>>
    /\ UNCHANGED <<conn, rconn, caller, df, choice, addLocals,
                   updLocals, stmt, history>>
    /\ report' = NoReport
    /\ UNCHANGED <<exc, plot, fileVars>>

\* main(): initialize_database() then the banner and the first menu.  CREATE
\* TABLE runs outside any transaction and nothing catches its failure (the
\* file locked by another process, say): main() ends there with the
\* traceback, before the banner, and the store is as it was.
initialize_database ==
    /\ pc = "start"
    /\ \E fault \in BOOLEAN :
        IF fault
        THEN /\ tableExists' = tableExists
             /\ pc' = "crashed"
             /\ out' = <<>>
        ELSE /\ tableExists' = TRUE
             /\ pc' = "menu"
             /\ out' = <<"=== User Database Manager ===", MenuPrompt>>
    /\ UNCHANGED <<users, seq, conn, rconn, caller, df, choice, addLocals,
                   updLocals, stmt, history>>
    /\ report' = NoReport
    /\ UNCHANGED <<exc, plot, fileVars>>

\* ------------------------------------------------------------- main(): menu
\* choice "1": df = read_db()
MenuView ==
    /\ pc = "menu"
    /\ \E line \in MenuLines :
        /\ strip(line) = <<"1">>
        /\ choice' = strip(line)
    /\ caller' = "main"
    /\ pc' = "read_db"
    /\ out' = <<>>
    /\ UNCHANGED <<dbVars, conn, rconn, df, addLocals, updLocals, stmt, history>>
    /\ report' = NoReport
    /\ UNCHANGED <<exc, plot, fileVars>>

\* choice "2": add_new_user() connects and prompts for the name.
MenuAdd ==
    /\ pc = "menu"
    /\ seq < MaxCreates
    /\ \E line \in MenuLines :
        /\ strip(line) = <<"2">>
        /\ choice' = strip(line)
    /\ conn' = Opened
    /\ opStart' = users
    /\ pc' = "add_name"
    /\ out' = <<NamePrompt>>
    /\ UNCHANGED <<dbVars, rconn, caller, df, addLocals, updLocals, stmt,
                   assigned, deleted>>
    /\ report' = NoReport
    /\ UNCHANGED <<exc, plot, fileVars>>

\* choice "3": delete_user() connects and calls read_db().
MenuDelete ==
    /\ pc = "menu"
    /\ \E line \in MenuLines :
        /\ strip(line) = <<"3">>
        /\ choice' = strip(line)
    /\ conn' = Opened
    /\ opStart' = users
    /\ caller' = "delete_user"
    /\ pc' = "read_db"
    /\ out' = <<>>
    /\ UNCHANGED <<dbVars, rconn, df, addLocals, updLocals, stmt,
                   assigned, deleted>>
    /\ report' = NoReport
    /\ UNCHANGED <<exc, plot, fileVars>>

\* choice "4": update_user() connects and calls read_db().
MenuUpdate ==
    /\ pc = "menu"
    /\ \E line \in MenuLines :
        /\ strip(line) = <<"4">>
        /\ choice' = strip(line)
    /\ conn' = Opened
    /\ opStart' = users
    /\ caller' = "update_user"
    /\ pc' = "read_db"
    /\ out' = <<>>
    /\ UNCHANGED <<dbVars, rconn, df, addLocals, updLocals, stmt,
                   assigned, deleted>>
    /\ report' = NoReport
    /\ UNCHANGED <<exc, plot, fileVars>>

\* choice "5": show_statistics() calls read_db().
MenuStatistics ==
    /\ pc = "menu"
    /\ \E line \in MenuLines :
        /\ strip(line) = <<"5">>
        /\ choice' = strip(line)
    /\ caller' = "show_statistics"
    /\ pc' = "read_db"
    /\ out' = <<>>
    /\ UNCHANGED <<dbVars, conn, rconn, df, addLocals, updLocals, stmt, history>>
    /\ report' = NoReport
    /\ UNCHANGED <<exc, plot, fileVars>>

\* choice "6": draw_scatter() calls read_db().
MenuScatter ==
    /\ pc = "menu"
    /\ \E line \in MenuLines :
        /\ strip(line) = <<"6">>
        /\ choice' = strip(line)
    /\ caller' = "draw_scatter"
    /\ pc' = "read_db"
    /\ out' = <<>>
    /\ UNCHANGED <<dbVars, conn, rconn, df, addLocals, updLocals, stmt, history>>
    /\ report' = NoReport
    /\ UNCHANGED <<exc, plot, fileVars>>

\* choice "7": leave the loop.
MenuExit ==
    /\ pc = "menu"
    /\ \E line \in MenuLines :
        /\ strip(line) = <<"7">>
        /\ choice' = strip(line)
    /\ pc' = "exited"
    /\ out' = <<"Program ended">>
    /\ UNCHANGED <<dbVars, conn, rconn, caller, df, addLocals, updLocals,
                   stmt, history>>
    /\ report' = NoReport
    /\ UNCHANGED <<exc, plot, fileVars>>

\* Variant: an unrecognized choice leaves the loop.
MenuInvalidBreak ==
    /\ pc = "menu"
    /\ \E line \in MenuLines :
        /\ strip(line) \notin {<<"1">>, <<"2">>, <<"3">>, <<"4">>, <<"5">>,
                               <<"6">>, <<"7">>}
        /\ choice' = strip(line)
    /\ pc' = "exited"
    /\ out' = <<"Invalid choice. Please enter a number between 1 and 7.">>
    /\ UNCHANGED <<dbVars, conn, rconn, caller, df, addLocals, updLocals,
                   stmt, history>>
    /\ report' = NoReport
    /\ UNCHANGED <<exc, plot, fileVars>>

\* anything else: complain and show the menu again.
MenuInvalid ==
    /\ pc = "menu"
    /\ \E line \in MenuLines :
        /\ strip(line) \notin {<<"1">>, <<"2">>, <<"3">>, <<"4">>, <<"5">>,
                               <<"6">>, <<"7">>}
        /\ choice' = strip(line)
    /\ pc' = "menu"
    /\ out' = <<"Invalid choice. Please enter a number between 1 and 7.",
                MenuPrompt>>
    /\ UNCHANGED <<dbVars, conn, rconn, caller, df, addLocals, updLocals,
                   stmt, history>>
    /\ report' = NoReport
    /\ UNCHANGED <<exc, plot, fileVars>>

\* ----------------------------------------------------------------- read_db()
\* Where read_db returns to.
ReturnTo(c) ==
    CASE c = "main" -> "view_show"
      [] c = "delete_user" -> "del_check"
      [] c = "update_user" -> "upd_check"
      [] c = "show_statistics" -> "stats_show"
      [] c = "draw_scatter" -> "scatter_check"
\* Variant: read_db has no except clause; the error ends the program after
\* the finally clause closed the connection.
ReadQueryPropagates ==
    /\ pc = "read_db"
    /\ \E fault \in BOOLEAN :
        IF fault \/ ~tableExists
        THEN /\ df' = <<>>
             /\ out' = <<"Traceback (most recent call last):">>
             /\ rconn' = FALSE
             /\ pc' = "exited"
        ELSE /\ df' = SelectAll(users)
             /\ out' = <<>>
             /\ rconn' = TRUE
             /\ pc' = "read_finally"
    /\ UNCHANGED <<dbVars, conn, caller, choice, addLocals, updLocals, stmt,
                   history>>
    /\ report' = NoReport
    /\ UNCHANGED <<exc, plot, fileVars>>

\* conn = connect_db(); df = pd.read_sql_query(query, conn), an empty
\* DataFrame when the query raises.
ReadQuery ==
    /\ pc = "read_db"
    /\ \E fault \in BOOLEAN :
        IF fault \/ ~tableExists
        THEN /\ df' = <<>>
             /\ out' = <<"Error reading database">>
        ELSE /\ df' = SelectAll(users)
             /\ out' = <<>>
    /\ rconn' = TRUE
    /\ pc' = "read_finally"
    /\ UNCHANGED <<dbVars, conn, caller, choice, addLocals, updLocals, stmt,
                   history>>
    /\ report' = NoReport
    /\ UNCHANGED <<exc, plot, fileVars>>

\* finally: conn.close(); return df
ReadFinally ==
    /\ pc = "read_finally"
    /\ rconn' = FALSE
    /\ pc' = ReturnTo(caller)
    /\ caller' = "none"
    /\ out' = <<>>
    /\ UNCHANGED <<dbVars, conn, df, choice, addLocals, updLocals, stmt,
                   history>>
    /\ report' = NoReport
    /\ UNCHANGED <<exc, plot, fileVars>>

\* main, choice "1": print the table or "Database is empty".
ViewAll ==
    /\ pc = "view_show"
    /\ out' = IF df = <<>>
              THEN <<"Database is empty", MenuPrompt>>
              ELSE <<"Current database content:", MenuPrompt>>
    /\ df' = <<>>
    /\ pc' = "menu"
    /\ UNCHANGED <<dbVars, conn, rconn, caller, choice, addLocals,
                   updLocals, stmt, history>>
    /\ report' = NoReport
    /\ UNCHANGED <<exc, plot, fileVars>>

\* ------------------------------------------------------------ add_new_user()
\* name = input(...).strip(); empty raises ValueError, caught in the loop.
AddName ==
    /\ pc = "add_name"
    /\ \E line \in NameLines :
        IF strip(line) = <<>>
        THEN /\ DropAddLocals
             /\ pc' = "add_name"
             /\ out' = <<"Invalid input: Name cannot be empty. Please try again",
                         NamePrompt>>
        ELSE /\ name' = strip(line)
             /\ UNCHANGED <<age, iq, bench_press>>
             /\ pc' = "add_age"
             /\ out' = <<"Age: ">>
    /\ UNCHANGED <<dbVars, conn, rconn, caller, df, choice, updLocals, stmt,
                   history>>
    /\ report' = NoReport
    /\ UNCHANGED <<exc, plot, fileVars>>
\* Variant: an invalid age prompts for the age again and keeps the name.
AddAgeRepromptsAge ==
    /\ pc = "add_age"
    /\ \E line \in NumberLines :
        LET p == int(line) IN
        IF ~p.ok
        THEN /\ UNCHANGED addLocals
             /\ pc' = "add_age"
             /\ out' = <<InvalidInt(p), "Age: ">>
        ELSE IF LeqZero(p.val)
        THEN /\ UNCHANGED addLocals
             /\ pc' = "add_age"
             /\ out' = <<"Invalid input: Age must be a positive number. Please try again",
                         "Age: ">>
        ELSE /\ age' = p.val
             /\ UNCHANGED <<name, iq, bench_press>>
             /\ pc' = "add_iq"
             /\ out' = <<"IQ: ">>
    /\ UNCHANGED <<dbVars, conn, rconn, caller, df, choice, updLocals, stmt,
                   history>>
    /\ report' = NoReport
    /\ UNCHANGED <<exc, plot, fileVars>>

\* age = int(input("Age: ")); age <= 0 raises ValueError.
AddAge ==
    /\ pc = "add_age"
    /\ \E line \in NumberLines :
        LET p == int(line) IN
        IF ~p.ok
        THEN /\ DropAddLocals
             /\ pc' = "add_name"
             /\ out' = <<InvalidInt(p), NamePrompt>>
        ELSE IF LeqZero(p.val)
        THEN /\ DropAddLocals
             /\ pc' = "add_name"
             /\ out' = <<"Invalid input: Age must be a positive number. Please try again",
                         NamePrompt>>
        ELSE /\ age' = p.val
             /\ UNCHANGED <<name, iq, bench_press>>
             /\ pc' = "add_iq"
             /\ out' = <<"IQ: ">>
    /\ UNCHANGED <<dbVars, conn, rconn, caller, df, choice, updLocals, stmt,
                   history>>
    /\ report' = NoReport
    /\ UNCHANGED <<exc, plot, fileVars>>

\* iq = int(input("IQ: ")); iq <= 0 raises ValueError.
AddIq ==
    /\ pc = "add_iq"
    /\ \E line \in IqLines :
        LET p == int(line) IN
        IF ~p.ok
        THEN /\ DropAddLocals
             /\ pc' = "add_name"
             /\ out' = <<InvalidInt(p), NamePrompt>>
        ELSE IF LeqZero(p.val)
        THEN /\ DropAddLocals
             /\ pc' = "add_name"
             /\ out' = <<"Invalid input: IQ must be a positive number. Please try again",
                         NamePrompt>>
        ELSE /\ iq' = p.val
             /\ UNCHANGED <<name, age, bench_press>>
             /\ pc' = "add_bench"
             /\ out' = <<"Bench press (kg): ">>
    /\ UNCHANGED <<dbVars, conn, rconn, caller, df, choice, updLocals, stmt,
                   history>>
    /\ report' = NoReport
    /\ UNCHANGED <<exc, plot, fileVars>>

\* bench_press = int(input("Bench press (kg): ")); < 0 raises ValueError.
AddBenchPress ==
    /\ pc = "add_bench"
    /\ \E line \in BenchLines :
        LET p == int(line) IN
        IF ~p.ok
        THEN /\ DropAddLocals
             /\ pc' = "add_name"
             /\ out' = <<InvalidInt(p), NamePrompt>>
        ELSE IF LtZero(p.val)
        THEN /\ DropAddLocals
             /\ pc' = "add_name"
             /\ out' = <<"Invalid input: Bench press cannot be negative. Please try again",
                         NamePrompt>>
        ELSE /\ bench_press' = p.val
             /\ UNCHANGED <<name, age, iq>>
             /\ pc' = "add_insert"
             /\ out' = <<>>
    /\ UNCHANGED <<dbVars, conn, rconn, caller, df, choice, updLocals, stmt,
                   history>>
    /\ report' = NoReport
    /\ UNCHANGED <<exc, plot, fileVars>>

\* cursor.execute("INSERT INTO users ... VALUES (?, ?, ?, ?)", new_user):
\* compile, implicit BEGIN, bind the parameters, run the statement.
AddInsert ==
    /\ pc = "add_insert"
    /\ \E fault \in Faults :
      /\ (fault = "prepare") => ~SchemaLoaded
      /\
        LET c == Begin(conn)
            row == Row(NextId(c.users, c.seq), name, age, iq, bench_press)
        IN  IF CompileFails(fault)
            THEN \* sqlite3.OperationalError before BEGIN
                 /\ conn' = conn
                 /\ stmt' = Statement("INSERT",
                                       {"name", "age", "iq", "bench_press"},
                                       name, age, iq, bench_press)
                 /\ UNCHANGED addLocals
                 /\ pc' = "add_except"
                 /\ out' = <<>>
                 /\ exc' = "sqlite3.Error"
            ELSE IF ~Encodable(name)
            THEN \* except ValueError: the loop goes round, nothing rolled back
                 /\ conn' = c
                 /\ stmt' = stmt
                 /\ DropAddLocals
                 /\ pc' = "add_name"
                 /\ out' = <<"Invalid input: 'utf-8' codec can't encode character. Please try again",
                             NamePrompt>>
                 /\ exc' = "none"
            ELSE IF ~(FitsInt64(age) /\ FitsInt64(iq) /\ FitsInt64(bench_press))
            THEN /\ conn' = c
                 /\ stmt' = stmt
                 /\ UNCHANGED addLocals
                 /\ pc' = "add_except"
                 /\ out' = <<>>
                 /\ exc' = "OverflowError"
            ELSE /\ stmt' = Statement("INSERT",
                                       {"name", "age", "iq", "bench_press"},
                                       name, age, iq, bench_press)
                 /\ UNCHANGED addLocals
                 /\ out' = <<>>
                 /\ IF StepFails(fault) \/ ~CheckConstraints(row)
                    THEN /\ conn' = c
                         /\ pc' = "add_except"
                         /\ exc' = "sqlite3.Error"
                    ELSE /\ conn' = [c EXCEPT !.users = c.users \cup {row},
                                              !.seq = row.id]
                         /\ pc' = "add_commit"
                         /\ exc' = "none"
    /\ UNCHANGED <<dbVars, rconn, caller, df, choice, updLocals, history>>
    /\ report' = NoReport
    /\ UNCHANGED <<plot, fileVars>>

\* conn.commit(); print("New user was added"); break
AddCommit ==
    /\ pc = "add_commit"
    /\ \E fault \in BOOLEAN :
        IF fault
        THEN /\ pc' = "add_except"
             /\ out' = <<>>
             /\ UNCHANGED <<users, seq, conn, assigned, addLocals, stmt>>
        ELSE /\ users' = conn.users
             /\ seq' = conn.seq
             /\ assigned' = assigned \cup (Ids(conn.users) \ Ids(users))
             /\ conn' = EndTransaction(conn)
             /\ DropAddLocals
             /\ stmt' = NoStmt
             /\ pc' = "add_close"
             /\ out' = <<"New user was added">>
    /\ UNCHANGED <<tableExists, rconn, caller, df, choice, updLocals,
                   deleted, opStart>>
    /\ exc' = IF pc' = "add_except" THEN "sqlite3.Error" ELSE "none"
    /\ report' = NoReport
    /\ UNCHANGED <<plot, fileVars>>

\* except Exception: print, conn.rollback(), break
AddExcept ==
    /\ pc = "add_except"
    /\ conn' = Rollback(conn)
    /\ DropAddLocals
    /\ stmt' = NoStmt
    /\ pc' = "add_close"
    /\ out' = <<"An unexpected error occurred">>
    /\ UNCHANGED <<dbVars, rconn, caller, df, choice, updLocals, history>>
    /\ exc' = "none"
    /\ report' = NoReport
    /\ UNCHANGED <<plot, fileVars>>

\* conn.close() and return to the menu.
AddClose ==
    /\ pc = "add_close"
    /\ conn' = Closed
    /\ opStart' = {}
    /\ pc' = "menu"
    /\ out' = <<MenuPrompt>>
    /\ UNCHANGED <<dbVars, rconn, caller, df, choice, addLocals, updLocals,
                   stmt, assigned, deleted>>
    /\ report' = NoReport
    /\ UNCHANGED <<exc, plot, fileVars>>

\* ------------------------------------------------------------- delete_user()
\* Variant: delete_user without the test of df.empty.
DeleteShowAlwaysPrompts ==
    /\ pc = "del_check"
    /\ out' = <<"Current users:", DeletePrompt>>
    /\ pc' = "del_id"
    /\ df' = <<>>
    /\ UNCHANGED <<dbVars, conn, rconn, caller, choice, addLocals, updLocals,
                   stmt, history>>
    /\ report' = NoReport
    /\ UNCHANGED <<exc, plot, fileVars>>

\* if df.empty: report, close, return; else list the rows and prompt.
DeleteShow ==
    /\ pc = "del_check"
    /\ IF df = <<>>
       THEN /\ out' = <<"Database is empty. Nothing to delete.", MenuPrompt>>
            /\ conn' = Closed
            /\ opStart' = {}
            /\ pc' = "menu"
       ELSE /\ out' = <<"Current users:", DeletePrompt>>
            /\ pc' = "del_id"
            /\ UNCHANGED <<conn, opStart>>
    /\ df' = <<>>
    /\ UNCHANGED <<dbVars, rconn, caller, choice, addLocals, updLocals, stmt,
                   assigned, deleted>>
    /\ report' = NoReport
    /\ UNCHANGED <<exc, plot, fileVars>>

\* user_id = int(input(...)); ValueError prompts for the id again.
DeleteId ==
    /\ pc = "del_id"
    /\ \E line \in IdLines :
        LET p == int(line) IN
        IF ~p.ok
        THEN /\ user_id' = Zero
             /\ pc' = "del_id"
             /\ out' = <<"Invalid input: Please enter a valid ID (number).",
                         DeletePrompt>>
        ELSE /\ user_id' = p.val
             /\ pc' = "del_select"
             /\ out' = <<>>
    /\ UNCHANGED <<dbVars, conn, rconn, caller, df, choice, addLocals,
                   update_choice, new_value, new_name, stmt, history>>
    /\ report' = NoReport
    /\ UNCHANGED <<exc, plot, fileVars>>

\* cursor.execute("SELECT COUNT(*) FROM users WHERE id=?", (user_id,))
\* and the test of cursor.fetchone()[0].  No BEGIN before a SELECT.
DeleteSelect ==
    /\ pc = "del_select"
    /\ \E fault \in Faults :
      /\ (fault = "prepare") => ~SchemaLoaded
      /\
        IF CompileFails(fault)
        THEN /\ stmt' = Statement("SELECT", {}, <<>>, Zero, Zero, Zero)
             /\ pc' = "del_except"
             /\ out' = <<>>
             /\ UNCHANGED user_id
             /\ exc' = "sqlite3.Error"
        ELSE IF ~FitsInt64(user_id)
        THEN /\ pc' = "del_except"
             /\ out' = <<>>
             /\ UNCHANGED <<stmt, user_id>>
             /\ exc' = "OverflowError"
        ELSE IF StepFails(fault)
        THEN /\ stmt' = Statement("SELECT", {}, <<>>, Zero, Zero, Zero)
             /\ pc' = "del_except"
             /\ out' = <<>>
             /\ UNCHANGED user_id
             /\ exc' = "sqlite3.Error"
        ELSE IF SelectCount(Visible(conn), IntValue(user_id)) = 0
        THEN /\ stmt' = Statement("SELECT", {}, <<>>, Zero, Zero, Zero)
             /\ user_id' = Zero
             /\ pc' = "del_id"
             /\ out' = <<"User with this ID does not exist. Please try again",
                         DeletePrompt>>
             /\ exc' = "none"
        ELSE /\ stmt' = Statement("SELECT", {}, <<>>, Zero, Zero, Zero)
             /\ pc' = "del_delete"
             /\ out' = <<>>
             /\ UNCHANGED user_id
             /\ exc' = "none"
    /\ UNCHANGED <<dbVars, conn, rconn, caller, df, choice, addLocals,
                   update_choice, new_value, new_name, history>>
    /\ report' = NoReport
    /\ UNCHANGED <<plot, fileVars>>

\* cursor.execute("DELETE FROM users WHERE id=?", (user_id,)): compile,
\* implicit BEGIN, bind the parameter, run the statement.  The SELECT before
\* it has loaded the schema, so a table dropped since then is missed only
\* when the statement runs.
DeleteExecute ==
    /\ pc = "del_delete"
    /\ \E fault \in Faults :
      /\ (fault = "prepare") => ~SchemaLoaded
      /\
        LET c == Begin(conn) IN
        IF CompileFails(fault)
        THEN \* sqlite3.OperationalError before BEGIN
             /\ conn' = conn
             /\ stmt' = Statement("DELETE", {}, <<>>, Zero, Zero, Zero)
             /\ pc' = "del_except"
             /\ exc' = "sqlite3.Error"
        ELSE IF ~FitsInt64(user_id)
        THEN /\ conn' = c
             /\ stmt' = stmt
             /\ pc' = "del_except"
             /\ exc' = "OverflowError"
        ELSE IF StepFails(fault)
        THEN /\ conn' = c
             /\ stmt' = Statement("DELETE", {}, <<>>, Zero, Zero, Zero)
             /\ pc' = "del_except"
             /\ exc' = "sqlite3.Error"
        ELSE /\ conn' = [c EXCEPT !.users = DeleteFrom(c.users, IntValue(user_id))]
             /\ stmt' = Statement("DELETE", {}, <<>>, Zero, Zero, Zero)
             /\ pc' = "del_commit"
             /\ exc' = "none"
    /\ out' = <<>>
    /\ UNCHANGED <<dbVars, rconn, caller, df, choice, addLocals, updLocals,
                   history>>
    /\ report' = NoReport
    /\ UNCHANGED <<plot, fileVars>>

\* conn.commit(); print("User was deleted from DataBase"); break
DeleteCommit ==
    /\ pc = "del_commit"
    /\ \E fault \in BOOLEAN :
        IF fault
        THEN /\ pc' = "del_except"
             /\ out' = <<>>
             /\ UNCHANGED <<users, seq, conn, deleted, user_id, stmt>>
        ELSE /\ users' = conn.users
             /\ seq' = conn.seq
             /\ deleted' = deleted \cup (Ids(users) \ Ids(conn.users))
             /\ conn' = EndTransaction(conn)
             /\ user_id' = Zero
             /\ stmt' = NoStmt
             /\ pc' = "del_close"
             /\ out' = <<"User was deleted from DataBase">>
    /\ UNCHANGED <<tableExists, rconn, caller, df, choice, addLocals,
                   update_choice, new_value, new_name, assigned, opStart>>
    /\ exc' = IF pc' = "del_except" THEN "sqlite3.Error" ELSE "none"
    /\ report' = NoReport
    /\ UNCHANGED <<plot, fileVars>>

\* Variant: the handler without conn.rollback().
DeleteExceptNoRollback ==
    /\ pc = "del_except"
    /\ user_id' = Zero
    /\ stmt' = NoStmt
    /\ pc' = "del_close"
    /\ out' = <<"Error deleting user">>
    /\ UNCHANGED <<dbVars, conn, rconn, caller, df, choice, addLocals,
                   update_choice, new_value, new_name, history>>
    /\ exc' = "none"
    /\ report' = NoReport
    /\ UNCHANGED <<plot, fileVars>>

\* except Exception: print, conn.rollback(), break
DeleteExcept ==
    /\ pc = "del_except"
    /\ conn' = Rollback(conn)
    /\ user_id' = Zero
    /\ stmt' = NoStmt
    /\ pc' = "del_close"
    /\ out' = <<"Error deleting user">>
    /\ UNCHANGED <<dbVars, rconn, caller, df, choice, addLocals,
                   update_choice, new_value, new_name, history>>
    /\ exc' = "none"
    /\ report' = NoReport
    /\ UNCHANGED <<plot, fileVars>>

\* conn.close() and return to the menu.
DeleteClose ==
    /\ pc = "del_close"
    /\ conn' = Closed
    /\ opStart' = {}
    /\ pc' = "menu"
    /\ out' = <<MenuPrompt>>
    /\ UNCHANGED <<dbVars, rconn, caller, df, choice, addLocals, updLocals,
                   stmt, assigned, deleted>>
    /\ report' = NoReport
    /\ UNCHANGED <<exc, plot, fileVars>>
\* Variant: update_user lists the rows and prompts without testing df.empty.
UpdateShowAlwaysPrompts ==
    /\ pc = "upd_check"
    /\ out' = <<"Current users:", UpdatePrompt>>
    /\ pc' = "upd_id"
    /\ df' = <<>>
    /\ UNCHANGED <<dbVars, conn, rconn, caller, choice, addLocals, updLocals,
                   stmt, history>>
    /\ report' = NoReport
    /\ UNCHANGED <<exc, plot, fileVars>>

\* ------------------------------------------------------------- update_user()
\* if df.empty: report, close, return; else list the rows and prompt.
UpdateShow ==
    /\ pc = "upd_check"
    /\ IF df = <<>>
       THEN /\ out' = <<"Database is empty. Nothing to update.", MenuPrompt>>
            /\ conn' = Closed
            /\ opStart' = {}
            /\ pc' = "menu"
       ELSE /\ out' = <<"Current users:", UpdatePrompt>>
            /\ pc' = "upd_id"
            /\ UNCHANGED <<conn, opStart>>
    /\ df' = <<>>
    /\ UNCHANGED <<dbVars, rconn, caller, choice, addLocals, updLocals, stmt,
                   assigned, deleted>>
    /\ report' = NoReport
    /\ UNCHANGED <<exc, plot, fileVars>>

\* user_id = int(input(...)); the outer ValueError handler prompts again.
UpdateId ==
    /\ pc = "upd_id"
    /\ \E line \in IdLines :
        LET p == int(line) IN
        IF ~p.ok
        THEN /\ user_id' = Zero
             /\ pc' = "upd_id"
             /\ out' = <<"Invalid input: Please enter a valid ID (number).",
                         UpdatePrompt>>
        ELSE /\ user_id' = p.val
             /\ pc' = "upd_select"
             /\ out' = <<>>
    /\ UNCHANGED <<dbVars, conn, rconn, caller, df, choice, addLocals,
                   update_choice, new_value, new_name, stmt, history>>
    /\ report' = NoReport
    /\ UNCHANGED <<exc, plot, fileVars>>

\* cursor.execute("SELECT COUNT(*) FROM users WHERE id=?", (user_id,)),
\* the test of cursor.fetchone()[0], and the field menu.
UpdateSelect ==
    /\ pc = "upd_select"
    /\ \E fault \in Faults :
      /\ (fault = "prepare") => ~SchemaLoaded
      /\
        IF CompileFails(fault)
        THEN /\ stmt' = Statement("SELECT", {}, <<>>, Zero, Zero, Zero)
             /\ pc' = "upd_except"
             /\ out' = <<>>
             /\ UNCHANGED user_id
             /\ exc' = "sqlite3.Error"
        ELSE IF ~FitsInt64(user_id)
        THEN /\ pc' = "upd_except"
             /\ out' = <<>>
             /\ UNCHANGED <<stmt, user_id>>
             /\ exc' = "OverflowError"
        ELSE IF StepFails(fault)
        THEN /\ stmt' = Statement("SELECT", {}, <<>>, Zero, Zero, Zero)
             /\ pc' = "upd_except"
             /\ out' = <<>>
             /\ UNCHANGED user_id
             /\ exc' = "sqlite3.Error"
        ELSE IF SelectCount(Visible(conn), IntValue(user_id)) = 0
        THEN /\ stmt' = Statement("SELECT", {}, <<>>, Zero, Zero, Zero)
             /\ user_id' = Zero
             /\ pc' = "upd_id"
             /\ out' = <<"User with this ID does not exist. Please try again",
                         UpdatePrompt>>
             /\ exc' = "none"
        ELSE /\ stmt' = Statement("SELECT", {}, <<>>, Zero, Zero, Zero)
             /\ pc' = "upd_choice"
             /\ out' = <<"What do you want to update?", FieldPrompt>>
             /\ UNCHANGED user_id
             /\ exc' = "none"
    /\ UNCHANGED <<dbVars, conn, rconn, caller, df, choice, addLocals,
                   update_choice, new_value, new_name, history>>
    /\ report' = NoReport
    /\ UNCHANGED <<plot, fileVars>>

\* update_choice = input(...).strip(); anything but 1-4 goes round the loop.
UpdateChoice ==
    /\ pc = "upd_choice"
    /\ \E line \in ChoiceLines :
        CASE strip(line) = <<"1">> ->
               /\ update_choice' = strip(line)
               /\ pc' = "upd_bench"
               /\ out' = <<"New bench press (kg): ">>
               /\ UNCHANGED <<user_id, new_value, new_name>>
          [] strip(line) = <<"2">> ->
               /\ update_choice' = strip(line)
               /\ pc' = "upd_iq"
               /\ out' = <<"New IQ: ">>
               /\ UNCHANGED <<user_id, new_value, new_name>>
          [] strip(line) = <<"3">> ->
               /\ update_choice' = strip(line)
               /\ pc' = "upd_age"
               /\ out' = <<"New age: ">>
               /\ UNCHANGED <<user_id, new_value, new_name>>
          [] strip(line) = <<"4">> ->
               /\ update_choice' = strip(line)
               /\ pc' = "upd_name"
               /\ out' = <<"New name: ">>
               /\ UNCHANGED <<user_id, new_value, new_name>>
          [] OTHER ->
               /\ DropUpdLocals
               /\ pc' = "upd_id"
               /\ out' = <<"Invalid choice. Please enter 1, 2, 3, or 4.",
                           UpdatePrompt>>
    /\ UNCHANGED <<dbVars, conn, rconn, caller, df, choice, addLocals, stmt,
                   history>>
    /\ report' = NoReport
    /\ UNCHANGED <<exc, plot, fileVars>>

\* new_bench_press = int(input(...)); ValueError or < 0: continue.
UpdateBenchPress ==
    /\ pc = "upd_bench"
    /\ \E line \in BenchLines :
        LET p == int(line) IN
        IF ~p.ok
        THEN /\ DropUpdLocals
             /\ pc' = "upd_id"
             /\ out' = <<"Invalid input: Please enter a number.", UpdatePrompt>>
        ELSE IF LtZero(p.val)
        THEN /\ DropUpdLocals
             /\ pc' = "upd_id"
             /\ out' = <<"Bench press cannot be negative.", UpdatePrompt>>
        ELSE /\ new_value' = p.val
             /\ UNCHANGED <<user_id, update_choice, new_name>>
             /\ pc' = "upd_update"
             /\ out' = <<>>
    /\ UNCHANGED <<dbVars, conn, rconn, caller, df, choice, addLocals, stmt,
                   history>>
    /\ report' = NoReport
    /\ UNCHANGED <<exc, plot, fileVars>>

\* new_iq = int(input(...)); ValueError or <= 0: continue.
UpdateIq ==
    /\ pc = "upd_iq"
    /\ \E line \in IqLines :
        LET p == int(line) IN
        IF ~p.ok
        THEN /\ DropUpdLocals
             /\ pc' = "upd_id"
             /\ out' = <<"Invalid input: Please enter a number.", UpdatePrompt>>
        ELSE IF LeqZero(p.val)
        THEN /\ DropUpdLocals
             /\ pc' = "upd_id"
             /\ out' = <<"IQ must be a positive number.", UpdatePrompt>>
        ELSE /\ new_value' = p.val
             /\ UNCHANGED <<user_id, update_choice, new_name>>
             /\ pc' = "upd_update"
             /\ out' = <<>>
    /\ UNCHANGED <<dbVars, conn, rconn, caller, df, choice, addLocals, stmt,
                   history>>
    /\ report' = NoReport
    /\ UNCHANGED <<exc, plot, fileVars>>

\* Variant: an invalid age asks for the field again, not for the id.
UpdateAgeRepromptsField ==
    /\ pc = "upd_age"
    /\ \E line \in NumberLines :
        LET p == int(line) IN
        IF ~p.ok
        THEN /\ pc' = "upd_choice"
             /\ out' = <<"Invalid input: Please enter a number.", FieldPrompt>>
             /\ update_choice' = <<>>
             /\ UNCHANGED <<user_id, new_value, new_name>>
        ELSE IF LeqZero(p.val)
        THEN /\ pc' = "upd_choice"
             /\ out' = <<"Age must be a positive number.", FieldPrompt>>
             /\ update_choice' = <<>>
             /\ UNCHANGED <<user_id, new_value, new_name>>
        ELSE /\ new_value' = p.val
             /\ UNCHANGED <<user_id, update_choice, new_name>>
             /\ pc' = "upd_update"
             /\ out' = <<>>
    /\ UNCHANGED <<dbVars, conn, rconn, caller, df, choice, addLocals, stmt,
                   history>>
    /\ report' = NoReport
    /\ UNCHANGED <<exc, plot, fileVars>>

\* new_age = int(input(...)); ValueError or <= 0: continue.
UpdateAge ==
    /\ pc = "upd_age"
    /\ \E line \in NumberLines :
        LET p == int(line) IN
        IF ~p.ok
        THEN /\ DropUpdLocals
             /\ pc' = "upd_id"
             /\ out' = <<"Invalid input: Please enter a number.", UpdatePrompt>>
        ELSE IF LeqZero(p.val)
        THEN /\ DropUpdLocals
             /\ pc' = "upd_id"
             /\ out' = <<"Age must be a positive number.", UpdatePrompt>>
        ELSE /\ new_value' = p.val
             /\ UNCHANGED <<user_id, update_choice, new_name>>
             /\ pc' = "upd_update"
             /\ out' = <<>>
    /\ UNCHANGED <<dbVars, conn, rconn, caller, df, choice, addLocals, stmt,
                   history>>
    /\ report' = NoReport
    /\ UNCHANGED <<exc, plot, fileVars>>

\* new_name = input("New name: ").strip(); empty: continue.
UpdateName ==
    /\ pc = "upd_name"
    /\ \E line \in NameLines :
        IF strip(line) = <<>>
        THEN /\ DropUpdLocals
             /\ pc' = "upd_id"
             /\ out' = <<"Name cannot be empty.", UpdatePrompt>>
        ELSE /\ new_name' = strip(line)
             /\ UNCHANGED <<user_id, update_choice, new_value>>
             /\ pc' = "upd_update"
             /\ out' = <<>>
    /\ UNCHANGED <<dbVars, conn, rconn, caller, df, choice, addLocals, stmt,
                   history>>
    /\ report' = NoReport
    /\ UNCHANGED <<exc, plot, fileVars>>

\* The column each branch of update_user writes.
Column(c) ==
    CASE c = <<"1">> -> "bench_press"
      [] c = <<"2">> -> "iq"
      [] c = <<"3">> -> "age"
      [] c = <<"4">> -> "name"

\* cursor.execute("UPDATE users SET <column> = ? WHERE id = ?", ...):
\* compile, implicit BEGIN, bind the parameters, run the statement.  The
\* SELECT before it has loaded the schema.
UpdateExecute ==
    /\ pc = "upd_update"
    /\ \E fault \in Faults :
      /\ (fault = "prepare") => ~SchemaLoaded
      /\
        LET c == Begin(conn)
            col == Column(update_choice)
            val == IF col = "name" THEN new_name ELSE new_value
            rows == UpdateSet(c.users, col, val, IntValue(user_id))
        IN  IF CompileFails(fault)
            THEN \* sqlite3.OperationalError before BEGIN
                 /\ conn' = conn
                 /\ stmt' = [Statement("UPDATE", {col}, <<>>, Zero, Zero, Zero)
                               EXCEPT ![col] = val]
                 /\ UNCHANGED updLocals
                 /\ pc' = "upd_except"
                 /\ out' = <<>>
                 /\ exc' = "sqlite3.Error"
            ELSE IF col = "name" /\ ~Encodable(new_name)
            THEN \* the outer except ValueError: continue, nothing rolled back
                 /\ conn' = c
                 /\ stmt' = stmt
                 /\ DropUpdLocals
                 /\ pc' = "upd_id"
                 /\ out' = <<"Invalid input: Please enter a valid ID (number).",
                             UpdatePrompt>>
                 /\ exc' = "none"
            ELSE IF (col # "name" /\ ~FitsInt64(new_value))
                    \/ ~FitsInt64(user_id)
            THEN /\ conn' = c
                 /\ stmt' = stmt
                 /\ UNCHANGED updLocals
                 /\ pc' = "upd_except"
                 /\ out' = <<>>
                 /\ exc' = "OverflowError"
            ELSE /\ stmt' = [Statement("UPDATE", {col}, <<>>, Zero, Zero, Zero)
                               EXCEPT ![col] = val]
                 /\ UNCHANGED updLocals
                 /\ out' = <<>>
                 /\ IF StepFails(fault) \/ \E r \in rows : ~CheckConstraints(r)
                    THEN /\ conn' = c
                         /\ pc' = "upd_except"
                         /\ exc' = "sqlite3.Error"
                    ELSE /\ conn' = [c EXCEPT !.users = rows]
                         /\ pc' = "upd_commit"
                         /\ exc' = "none"
    /\ UNCHANGED <<dbVars, rconn, caller, df, choice, addLocals, history>>
    /\ report' = NoReport
    /\ UNCHANGED <<plot, fileVars>>
\* Variant: after the commit the loop goes round again instead of breaking.
UpdateCommitContinues ==
    /\ pc = "upd_commit"
    /\ \E fault \in BOOLEAN :
        IF fault
        THEN /\ pc' = "upd_except"
             /\ out' = <<>>
             /\ UNCHANGED <<users, seq, conn, updLocals, stmt>>
        ELSE /\ users' = conn.users
             /\ seq' = conn.seq
             /\ conn' = EndTransaction(conn)
             /\ DropUpdLocals
             /\ stmt' = NoStmt
             /\ pc' = "upd_id"
             /\ out' = <<"Age was updated", UpdatePrompt>>
    /\ UNCHANGED <<tableExists, rconn, caller, df, choice, addLocals, history>>
    /\ exc' = IF pc' = "upd_except" THEN "sqlite3.Error" ELSE "none"
    /\ report' = NoReport
    /\ UNCHANGED <<plot, fileVars>>

\* conn.commit(); print("... was updated"); break
UpdateCommit ==
    /\ pc = "upd_commit"
    /\ \E fault \in BOOLEAN :
        IF fault
        THEN /\ pc' = "upd_except"
             /\ out' = <<>>
             /\ UNCHANGED <<users, seq, conn, updLocals, stmt>>
        ELSE /\ users' = conn.users
             /\ seq' = conn.seq
             /\ conn' = EndTransaction(conn)
             /\ DropUpdLocals
             /\ stmt' = NoStmt
             /\ pc' = "upd_close"
             /\ out' = <<CASE update_choice = <<"1">> -> "Bench press was updated"
                           [] update_choice = <<"2">> -> "IQ was updated"
                           [] update_choice = <<"3">> -> "Age was updated"
                           [] update_choice = <<"4">> -> "Name was updated">>
    /\ UNCHANGED <<tableExists, rconn, caller, df, choice, addLocals, history>>
    /\ exc' = IF pc' = "upd_except" THEN "sqlite3.Error" ELSE "none"
    /\ report' = NoReport
    /\ UNCHANGED <<plot, fileVars>>

\* except Exception: print, conn.rollback(), break
UpdateExcept ==
    /\ pc = "upd_except"
    /\ conn' = Rollback(conn)
    /\ DropUpdLocals
    /\ stmt' = NoStmt
    /\ pc' = "upd_close"
    /\ out' = <<"Error updating user">>
    /\ UNCHANGED <<dbVars, rconn, caller, df, choice, addLocals, history>>
    /\ exc' = "none"
    /\ report' = NoReport
    /\ UNCHANGED <<plot, fileVars>>

\* Variant: update_user returns without conn.close().
UpdateCloseLeaks ==
    /\ pc = "upd_close"
    /\ opStart' = {}
    /\ pc' = "menu"
    /\ out' = <<MenuPrompt>>
    /\ UNCHANGED <<dbVars, conn, rconn, caller, df, choice, addLocals,
                   updLocals, stmt, assigned, deleted>>
    /\ report' = NoReport
    /\ UNCHANGED <<exc, plot, fileVars>>

\* conn.close() and return to the menu.
UpdateClose ==
    /\ pc = "upd_close"
    /\ conn' = Closed
    /\ opStart' = {}
    /\ pc' = "menu"
    /\ out' = <<MenuPrompt>>
    /\ UNCHANGED <<dbVars, rconn, caller, df, choice, addLocals, updLocals,
                   stmt, assigned, deleted>>
    /\ report' = NoReport
    /\ UNCHANGED <<exc, plot, fileVars>>

\* ---------------------------------------------------------- show_statistics()
\* The figures are computed on natural numbers held in limbs of four
\* decimal digits, most significant first, zero being the empty sequence
\* (the CHECK constraints keep every stored value at or above zero).  The
\* arithmetic is written as functions, whose arguments are values.
Base == 10000
Number == Seq(0..(Base - 1))

\* The limbs of a magnitude, and the magnitude of a number in limbs.
Limbs[m \in Seq(0..9)] ==
    LET n == Len(m)
        p == (4 - (n % 4)) % 4
        digit(j) == IF j <= p THEN 0 ELSE m[j - p]
    IN  [i \in 1..((n + p) \div 4) |->
            1000 * digit(4 * i - 3) + 100 * digit(4 * i - 2)
                + 10 * digit(4 * i - 1) + digit(4 * i)]

Decimal[a \in Number] ==
    StripZeros([j \in 1..(4 * Len(a)) |->
                   (a[(j + 3) \div 4] \div 10^(3 - ((j - 1) % 4))) % 10])

Front(a) == SubSeq(a, 1, Len(a) - 1)

\* The limbs of the integer n >= 0.
NatOf[n \in Nat] ==
    IF n = 0 THEN <<>> ELSE Append(NatOf[n \div Base], n % Base)

\* a < b, for two numbers in limbs or two magnitudes
NatLess(a, b) ==
    \/ Len(a) < Len(b)
    \/ Len(a) = Len(b) /\ a # b /\ LexLeq(a, b)

\* a + b + c, for a carry c
AddCarry[a \in Number, b \in Number, c \in Nat] ==
    IF a = <<>> /\ b = <<>> THEN NatOf[c]
    ELSE LET x == IF a = <<>> THEN 0 ELSE a[Len(a)]
             y == IF b = <<>> THEN 0 ELSE b[Len(b)]
         IN  Append(AddCarry[IF a = <<>> THEN a ELSE Front(a),
                             IF b = <<>> THEN b ELSE Front(b),
                             (x + y + c) \div Base],
                    (x + y + c) % Base)

NatAdd[a \in Number, b \in Number] == AddCarry[a, b, 0]

\* a * k + c, for an integer k >= 0
MulCarry[a \in Number, k \in Nat, c \in Nat] ==
    IF a = <<>> THEN NatOf[c]
    ELSE Append(MulCarry[Front(a), k, (a[Len(a)] * k + c) \div Base],
                (a[Len(a)] * k + c) % Base)

NatMul[a \in Number, k \in Nat] == StripZeros(MulCarry[a, k, 0])

\* Long division by an integer k > 0: the remainder of a, and the quotient,
\* whose limb i is what the remainder of the limbs before it and limb i
\* give.
NatMod[a \in Number, k \in Nat \ {0}] ==
    IF a = <<>> THEN 0 ELSE (Base * NatMod[Front(a), k] + a[Len(a)]) % k

NatDiv[a \in Number, k \in Nat \ {0}] ==
    StripZeros([i \in 1..Len(a) |->
                   (Base * NatMod[SubSeq(a, 1, i - 1), k] + a[i]) \div k])

Odd[a \in Number] == a # <<>> /\ a[Len(a)] % 2 = 1

\* a * 2^k and a \div 2^k, 16 binary digits at a time.
ShiftLeft[a \in Number, k \in Nat] ==
    IF k <= 16 THEN NatMul[a, 2^k]
    ELSE ShiftLeft[NatMul[a, 2^16], k - 16]

ShiftRight[a \in Number, k \in Nat] ==
    IF k <= 16 THEN NatDiv[a, 2^k]
    ELSE ShiftRight[NatDiv[a, 2^16], k - 16]

\* Number of binary digits of a (a number of more than one limb has more
\* than 13 of them).
BitLength[a \in Number] ==
    IF a = <<>> THEN 0
    ELSE IF Len(a) > 1 THEN 13 + BitLength[ShiftRight[a, 13]]
    ELSE CHOOSE b \in 1..14 : 2^(b - 1) <= a[1] /\ a[1] < 2^b

\* a / k rounded to the nearest integer, to the even one on a tie.
NearestEven[a \in Number, k \in Nat \ {0}] ==
    LET q == NatDiv[a, k]
        r == NatMod[a, k]
    IN  IF 2 * r < k THEN q
        ELSE IF 2 * r > k THEN NatAdd[q, <<1>>]
        ELSE IF Odd[q] THEN NatAdd[q, <<1>>] ELSE q

\* a / 2^k rounded to the nearest integer, to the even one on a tie, for
\* k > 0: h = a \div 2^(k-1) holds the quotient q and, as its last binary
\* digit, the first digit that is dropped; the digits after it are all zero
\* when h * 2^(k-1) = a.
RoundShift[a \in Number, k \in Nat \ {0}] ==
    LET h == ShiftRight[a, k - 1]
        q == NatDiv[h, 2]
    IN  IF ~Odd[h] THEN q
        ELSE IF ShiftLeft[h, k - 1] # a THEN NatAdd[q, <<1>>]
        ELSE IF Odd[q] THEN NatAdd[q, <<1>>] ELSE q

\* The e with 2^e <= s/n < 2^(e+1), for a number s > 0 and an integer
\* n > 0: the difference of the numbers of binary digits, or one less.
Exponent[s \in Number, n \in Nat \ {0}] ==
    LET e == BitLength[s] - BitLength[NatOf[n]]
        below == IF e >= 0 THEN NatLess(s, ShiftLeft[NatOf[n], e])
                 ELSE NatLess(ShiftLeft[s, 0 - e], NatOf[n])
    IN  IF below THEN e - 1 ELSE e

\* The float64 nearest to the integer x >= 0: x itself up to 53 binary
\* digits, otherwise x rounded to 53 significant binary digits, to the even
\* one on a tie.
Float64[x \in Number] ==
    LET k == BitLength[x] - 53
    IN  IF k <= 0 THEN x ELSE ShiftLeft[RoundShift[x, k], k]

\* x + y in float64
FloatAdd[x \in Number, y \in Number] == Float64[NatAdd[x, y]]

\* res += a[lo + 1]; ...; res += a[hi], every sum rounded.
RECURSIVE AddInOrder(_, _, _, _)
AddInOrder(a, res, lo, hi) ==
    IF lo >= hi THEN res
    ELSE AddInOrder(a, FloatAdd[res, a[lo + 1]], lo + 1, hi)

\* numpy's pairwise summation adds blocks of at most PW_BLOCKSIZE values
\* in eight lanes and halves longer runs; the iterator that converts the
\* int64 column to float64 hands it over in buffers of NPY_BUFSIZE values.
PW_BLOCKSIZE == 128
NPY_BUFSIZE == 8192

\* Lane j of the unrolled loop after k blocks of eight:
\* r[j] = a[j]; r[j] += a[8 + j]; ...
RECURSIVE Lane(_, _, _, _)
Lane(a, lo, j, k) ==
    IF k = 1 THEN a[lo + j]
    ELSE FloatAdd[Lane(a, lo, j, k - 1), a[lo + 8 * (k - 1) + j]]

\* numpy's pairwise sum of the n values a[lo + 1], ..., a[lo + n]: fewer
\* than 8 are added in their order; up to PW_BLOCKSIZE go into eight lanes
\* that are added as a tree, the values left over (n % 8) in their order
\* after that; a longer run is split in two runs, the first of a multiple of
\* 8 values.
RECURSIVE pairwise_sum(_, _, _)
pairwise_sum(a, lo, n) ==
    IF n < 8 THEN AddInOrder(a, <<>>, lo, lo + n)
    ELSE IF n <= PW_BLOCKSIZE
    THEN LET k == n \div 8
             r == [j \in 1..8 |-> Lane(a, lo, j, k)]
             res == FloatAdd[FloatAdd[FloatAdd[r[1], r[2]], FloatAdd[r[3], r[4]]],
                             FloatAdd[FloatAdd[r[5], r[6]], FloatAdd[r[7], r[8]]]]
         IN  AddInOrder(a, res, lo + 8 * k, lo + n)
    ELSE LET n2 == (n \div 2) - ((n \div 2) % 8)
         IN  FloatAdd[pairwise_sum(a, lo, n2), pairwise_sum(a, lo + n2, n - n2)]

\* df[col].mean() adds the first i values of the column up in float64 as
\* numpy's add.reduce does: every value is converted first, every sum is
\* rounded, and the pairwise sum of each buffer is added to the sum of the
\* buffers before it.
RECURSIVE ColumnSum(_, _, _)
ColumnSum(d, col, i) ==
    IF i = 0 THEN <<>>
    ELSE LET a == [k \in 1..Len(d) |-> Float64[Limbs[d[k][col].mag]]]
             lo == ((i - 1) \div NPY_BUFSIZE) * NPY_BUFSIZE
         IN  FloatAdd[ColumnSum(d, col, lo), pairwise_sum(a, lo, i - lo)]

\* f"{s / n:.1f}" in tenths, for a float64 s >= 0 and a count n: the
\* quotient is rounded to a float64 (a significand m of 53 binary digits
\* and the exponent e, ties to even) and its exact value m * 2^(e - 52) is
\* then rounded to the nearest tenth, to the even tenth on a tie.
QuotientTenths[s \in Number, n \in Nat \ {0}] ==
    IF s = <<>> THEN <<>>
    ELSE LET e == Exponent[s, n]
             m == IF e <= 52 THEN NearestEven[ShiftLeft[s, 52 - e], n]
                  ELSE NearestEven[s, n * 2^(e - 52)]
         IN  IF e >= 52 THEN ShiftLeft[NatMul[m, 10], e - 52]
             ELSE RoundShift[NatMul[m, 10], 52 - e]

\* a <= b on Python ints
IntLeq(a, b) ==
    IF a.neg # b.neg THEN a.neg
    ELSE IF a.neg THEN ~NatLess(a.mag, b.mag)
    ELSE ~NatLess(b.mag, a.mag)

\* df[col].max()
ColumnMax(d, col) ==
    LET S == {d[i][col] : i \in 1..Len(d)}
    IN  CHOOSE m \in S : \A x \in S : IntLeq(x, m)

\* Variant: the running minimum starts from zero instead of the first value.
ColumnMinFromZero(d, col) ==
    LET S == {d[i][col] : i \in 1..Len(d)} \cup {Zero}
    IN  CHOOSE m \in S : \A x \in S : IntLeq(m, x)

\* df[col].min()
ColumnMin(d, col) ==
    LET S == {d[i][col] : i \in 1..Len(d)}
    IN  CHOOSE m \in S : \A x \in S : IntLeq(m, x)

\* f"{df[col].mean():.1f}": the decimal digits of the mean in tenths.
MeanTenths(d, col) ==
    Decimal[QuotientTenths[ColumnSum(d, col, Len(d)), Len(d)]]

\* The six figures show_statistics prints; the means are in tenths.
Statistics(d) ==
    [count |-> Len(d),
     mean_age |-> MeanTenths(d, "age"),
     mean_iq |-> MeanTenths(d, "iq"),
     mean_bench_press |-> MeanTenths(d, "bench_press"),
     max_bench_press |-> ColumnMax(d, "bench_press"),
     min_bench_press |-> ColumnMin(d, "bench_press")]

\* if df.empty: report and return; else print the figures.
show_statistics ==
    /\ pc = "stats_show"
    /\ IF df = <<>>
       THEN /\ out' = <<"No data available for statistics", MenuPrompt>>
            /\ report' = NoReport
       ELSE /\ out' = <<"Data Statistics:", MenuPrompt>>
            /\ report' = Statistics(df)
    /\ df' = <<>>
    /\ pc' = "menu"
    /\ UNCHANGED <<dbVars, conn, rconn, caller, choice, addLocals, updLocals,
                   stmt, history>>
    /\ UNCHANGED <<exc, plot, fileVars>>

\* -------------------------------------------------------------- draw_scatter()
\* plt.scatter(df['iq'], df['bench_press']): one point per row.
Points(d) == [i \in 1..Len(d) |-> <<d[i].iq, d[i].bench_press>>]

\* Variant: the correlation is annotated as soon as there is one row.
AnnotatedFromOne(d) == Len(d) >= 1

\* if len(df) > 1: plt.text(... f'Correlation: {correlation:.3f}' ...).  The
\* figure records that the text was added, not the coefficient.
Annotated(d) == Len(d) > 1

\* if df.empty: report and return; else draw and ask whether to save.
draw_scatter ==
    /\ pc = "scatter_check"
    /\ IF df = <<>>
       THEN /\ out' = <<"No data available for visualization", MenuPrompt>>
            /\ pc' = "menu"
            /\ df' = <<>>
            /\ plot' = NoPlot
       ELSE /\ out' = <<"Do you want to save the scatter? (y/n): ">>
            /\ pc' = "scatter_save"
            /\ df' = df
            /\ plot' = [points |-> Points(df), annotated |-> Annotated(df)]
    /\ UNCHANGED <<dbVars, conn, rconn, caller, choice, addLocals,
                   updLocals, stmt, history>>
    /\ report' = NoReport
    /\ UNCHANGED <<exc, fileVars>>

\* ------------------------------------------- draw_scatter: saving the figure
DigitChar(k) ==
    CASE k = 0 -> "0" [] k = 1 -> "1" [] k = 2 -> "2" [] k = 3 -> "3"
      [] k = 4 -> "4" [] k = 5 -> "5" [] k = 6 -> "6" [] k = 7 -> "7"
      [] k = 8 -> "8" [] k = 9 -> "9"

\* str(counter) inside the f-string: decimal digits, no padding.
RECURSIVE str(_)
str(n) ==
    IF n < 10 THEN <<DigitChar(n)>>
    ELSE str(n \div 10) \o <<DigitChar(n % 10)>>

base_name == <<"s", "c", "a", "t", "t", "e", "r">>
extension == <<".", "p", "n", "g">>

\* save_choice = input(...).strip().lower(); if save_choice == 'y': ...
\* The model lets at most MaxSaves figures be saved.
SaveChoice ==
    /\ pc = "scatter_save"
    /\ \E line \in SaveLines :
        IF lower(strip(line)) = <<"y">>
        THEN /\ saved < MaxSaves
             /\ pc' = "unique_base"
        ELSE pc' = "plt_show"
    /\ out' = <<>>
    /\ df' = <<>>
    /\ report' = NoReport
    /\ UNCHANGED <<dbVars, conn, rconn, caller, choice, addLocals, updLocals,
                   stmt, history, exc, plot, fileVars>>

\* Variant: the counter starts at 1, so that scatter1.png follows scatter.png.
GetUniqueFilenameFromOne ==
    /\ pc = "unique_base"
    /\ filename' = base_name \o extension
    /\ IF filename' \notin files
       THEN /\ pc' = "savefig"
            /\ counter' = counter
       ELSE /\ counter' = 1
            /\ pc' = "unique_loop"
    /\ out' = <<>>
    /\ report' = NoReport
    /\ UNCHANGED <<dbVars, conn, rconn, caller, df, choice, addLocals,
                   updLocals, stmt, history, exc, plot, files, saved>>

\* filename = base_name + extension; returned if no such file exists,
\* otherwise counter = 2.
GetUniqueFilename ==
    /\ pc = "unique_base"
    /\ filename' = base_name \o extension
    /\ IF filename' \notin files
       THEN /\ pc' = "savefig"
            /\ counter' = counter
       ELSE /\ counter' = 2
            /\ pc' = "unique_loop"
    /\ out' = <<>>
    /\ report' = NoReport
    /\ UNCHANGED <<dbVars, conn, rconn, caller, df, choice, addLocals,
                   updLocals, stmt, history, exc, plot, files, saved>>

\* while True: filename = f"{base_name}{counter}{extension}"; returned if no
\* such file exists, otherwise counter += 1.
GetUniqueFilenameLoop ==
    /\ pc = "unique_loop"
    /\ filename' = base_name \o str(counter) \o extension
    /\ IF filename' \notin files
       THEN /\ pc' = "savefig"
            /\ counter' = 0
       ELSE /\ counter' = counter + 1
            /\ pc' = "unique_loop"
    /\ out' = <<>>
    /\ report' = NoReport
    /\ UNCHANGED <<dbVars, conn, rconn, caller, df, choice, addLocals,
                   updLocals, stmt, history, exc, plot, files, saved>>

\* plt.savefig(filename, ...); print(f'Scatter saved as {filename}')
SaveFig ==
    /\ pc = "savefig"
    /\ files' = files \cup {filename}
    /\ saved' = saved + 1
    /\ pc' = "plt_show"
    /\ out' = <<"Scatter saved as">>
    /\ report' = NoReport
    /\ UNCHANGED <<dbVars, conn, rconn, caller, df, choice, addLocals,
                   updLocals, stmt, history, exc, plot, filename, counter>>

\* plt.show(); draw_scatter returns to the menu.
PltShow ==
    /\ pc = "plt_show"
    /\ plot' = NoPlot
    /\ filename' = <<>>
    /\ pc' = "menu"
    /\ out' = <<MenuPrompt>>
    /\ report' = NoReport
    /\ UNCHANGED <<dbVars, conn, rconn, caller, df, choice, addLocals,
                   updLocals, stmt, history, exc, files, counter, saved>>

\* ------------------------------------------------------------------- main
\* if __name__ == '__main__': main().  The program is run again; the
\* database file is what the previous run left.
Run ==
    /\ pc \in {"exited", "crashed"}
    /\ pc' = "start"
    /\ choice' = <<>>
    /\ out' = <<>>
    /\ report' = NoReport
    /\ UNCHANGED <<dbVars, conn, rconn, caller, df, addLocals, updLocals,
                   stmt, history, exc, plot, fileVars>>

\* ------------------------------------------------------------ specification
Next ==
    \/ initialize_database
    \/ MenuView \/ MenuAdd \/ MenuDelete \/ MenuUpdate \/ MenuStatistics
    \/ MenuScatter \/ MenuExit \/ MenuInvalid
    \/ ReadQuery \/ ReadFinally \/ ViewAll
    \/ AddName \/ AddAge \/ AddIq \/ AddBenchPress
    \/ AddInsert \/ AddCommit \/ AddExcept \/ AddClose
    \/ DeleteShow \/ DeleteId \/ DeleteSelect \/ DeleteExecute
    \/ DeleteCommit \/ DeleteExcept \/ DeleteClose
    \/ UpdateShow \/ UpdateId \/ UpdateSelect \/ UpdateChoice
    \/ UpdateBenchPress \/ UpdateIq \/ UpdateAge \/ UpdateName
    \/ UpdateExecute \/ UpdateCommit \/ UpdateExcept \/ UpdateClose
    \/ show_statistics \/ draw_scatter
    \/ SaveChoice \/ GetUniqueFilename \/ GetUniqueFilenameLoop
    \/ SaveFig \/ PltShow
    \/ Run

Spec == Init /\ [][Next]_vars

\* ------------------------------------------- draw_scatter(): saving the figure
\* Largest counter of a scatter file that exists before the program runs.
MaxFiles == 3

\* Names the working directory may hold when the program starts: those the
\* program writes, and two it never writes (scatter1.png, scatter02.png).
Directory ==
    {base_name \o extension}
      \cup {base_name \o str(k) \o extension : k \in 2..MaxFiles}
      \cup {base_name \o <<"1">> \o extension,
            base_name \o <<"0", "2">> \o extension}

\* The program at its menu with one row stored, in any such directory.
ScatterInit ==
    /\ pc = "menu"
    /\ tableExists = TRUE
    /\ users = {Row(1, <<"a">>, One, One, Zero)}
    /\ seq = 1
    /\ conn = Closed
    /\ rconn = FALSE
    /\ caller = "none"
    /\ df = <<>>
    /\ choice = <<>>
    /\ name = <<>>
    /\ age = Zero
    /\ iq = Zero
    /\ bench_press = Zero
    /\ user_id = Zero
    /\ update_choice = <<>>
    /\ new_value = Zero
    /\ new_name = <<>>
    /\ out = <<MenuPrompt>>
    /\ stmt = NoStmt
    /\ assigned = {1}
    /\ deleted = {}
    /\ opStart = {}
    /\ exc = "none"
    /\ report = NoReport
    /\ plot = NoPlot
    /\ files \in SUBSET Directory
    /\ filename = <<>>
    /\ counter = 0
    /\ saved = 0

ScatterNext ==
    \/ MenuScatter \/ ReadQuery \/ ReadFinally \/ draw_scatter
    \/ SaveChoice \/ GetUniqueFilename \/ GetUniqueFilenameLoop
    \/ SaveFig \/ PltShow

\* The interpreter runs a statement that does not wait for input.
ScatterSpec ==
    /\ ScatterInit
    /\ [][ScatterNext]_vars
    /\ WF_vars(GetUniqueFilename)
    /\ WF_vars(GetUniqueFilenameLoop)

\* ------------------------------------------- show_statistics() on any table
\* 2^53: every integer up to it is a float64, not every one above it.
TwoTo53 == PyInt(FALSE, <<9, 0, 0, 7, 1, 9, 9, 2, 5, 4, 7, 4, 0, 9, 9, 2>>)

\* Rows add_new_user accepts: small values (an iq of 100, a bench press of
\* 50) and values around 2^53, up to the largest SQLite INTEGER.
StatRows ==
    LET above == PyInt(FALSE, <<9, 0, 0, 7, 1, 9, 9, 2, 5, 4, 7, 4, 0, 9, 9, 3>>)
        ages == {One, TwoTo53, above,
                 PyInt(FALSE, <<9, 0, 0, 7, 1, 9, 9, 2, 5, 4, 7, 4, 0, 9, 9, 5>>),
                 PyInt(FALSE, Int64MaxMag)}
        iqs == {One, PyInt(FALSE, <<1, 0, 0>>), above}
        bench_presses == {Zero, PyInt(FALSE, <<5, 0>>), above}
    IN  {Row(1, <<"a">>, a, i, b) :
            a \in ages, i \in iqs, b \in bench_presses}

\* Tables the program may find: no row, one such row, or two rows.
StatTables ==
    {{}} \cup {{r} : r \in StatRows}
         \cup {{r, Row(2, <<"b">>, One, One, One)} : r \in StatRows}

\* The program at its menu, on any such table.
StatInit ==
    /\ pc = "menu"
    /\ tableExists = TRUE
    /\ users \in StatTables
    /\ seq = Cardinality(users)
    /\ conn = Closed
    /\ rconn = FALSE
    /\ caller = "none"
    /\ df = <<>>
    /\ choice = <<>>
    /\ name = <<>>
    /\ age = Zero
    /\ iq = Zero
    /\ bench_press = Zero
    /\ user_id = Zero
    /\ update_choice = <<>>
    /\ new_value = Zero
    /\ new_name = <<>>
    /\ out = <<MenuPrompt>>
    /\ stmt = NoStmt
    /\ assigned = Ids(users)
    /\ deleted = {}
    /\ opStart = {}
    /\ exc = "none"
    /\ report = NoReport
    /\ plot = NoPlot
    /\ files = {}
    /\ filename = <<>>
    /\ counter = 0
    /\ saved = 0

StatNext ==
    \/ MenuStatistics \/ ReadQuery \/ ReadFinally \/ show_statistics

StatSpec == StatInit /\ [][StatNext]_vars

\* ------------------------------------------------------------- vocabulary
\* Positions at which the program is blocked in input().
OperationPrompts ==
    {"add_name", "add_age", "add_iq", "add_bench", "del_id", "upd_id",
     "upd_choice", "upd_bench", "upd_iq", "upd_age", "upd_name"}
Prompts == OperationPrompts \cup {"menu", "scatter_save"}
ValuePrompts == {"upd_bench", "upd_iq", "upd_age", "upd_name"}
AddPrompts == {"add_name", "add_age", "add_iq", "add_bench"}
ExceptHandlers == {"add_except", "del_except", "upd_except"}
Closes == {"add_close", "del_close", "upd_close"}
CloseOf(p) ==
    CASE p = "add_except" -> "add_close"
      [] p = "del_except" -> "del_close"
      [] p = "upd_except" -> "upd_close"
ErrorReports ==
    {"An unexpected error occurred", "Error deleting user",
     "Error updating user"}
RetryReports ==
    {"Invalid input: Name cannot be empty. Please try again",
     "Invalid input: invalid literal for int(). Please try again",
     "Invalid input: Exceeds the limit (4300 digits) for integer string conversion. Please try again",
     "Invalid input: 'utf-8' codec can't encode character. Please try again",
     "Invalid input: Age must be a positive number. Please try again",
     "Invalid input: IQ must be a positive number. Please try again",
     "Invalid input: Bench press cannot be negative. Please try again",
     "Invalid input: Please enter a valid ID (number).",
     "User with this ID does not exist. Please try again",
     "Invalid choice. Please enter 1, 2, 3, or 4.",
     "Invalid input: Please enter a number.",
     "Bench press cannot be negative.", "IQ must be a positive number.",
     "Age must be a positive number.", "Name cannot be empty."}
Printed(o, m) == \E i \in 1..Len(o) : o[i] = m
ValidRow(r) ==
    /\ ~r.age.neg /\ r.age.mag # <<>>
    /\ ~r.iq.neg /\ r.iq.mag # <<>>
    /\ ~r.bench_press.neg
    /\ r.name # <<>>

\* ------------------------------------------------------------------ claims
\* C1: every stored row (committed or written inside the open transaction)
\* has age > 0, iq > 0, bench_press >= 0 and a non-empty name, and every
\* INSERT or UPDATE statement handed to the engine binds only values that
\* satisfy the constraint of the column they are written to.
C1_ValidRowsAndStatements ==
    /\ \A r \in users \cup conn.users : ValidRow(r)
    /\ stmt.sql \in {"INSERT", "UPDATE"} =>
         /\ "age" \in stmt.sets => ~stmt.age.neg /\ stmt.age.mag # <<>>
         /\ "iq" \in stmt.sets => ~stmt.iq.neg /\ stmt.iq.mag # <<>>
         /\ "bench_press" \in stmt.sets => ~stmt.bench_press.neg
         /\ "name" \in stmt.sets => stmt.name # <<>>

\* An UPDATE has just run on a table that holds two created rows.
C1_Witness ==
    /\ pc = "upd_commit"
    /\ stmt.sql = "UPDATE"
    /\ Cardinality(users) = 2

\* C2: a committed delete of id X removes exactly the row with id X and
\* leaves every other row as it was; from then on no row of the table and
\* no row of any result of read_db has id X.
C2_DeleteRemovesOneForGood ==
    /\ [][(pc = "del_commit" /\ pc' = "del_close") =>
            \E r \in users :
                /\ r.id = IntValue(user_id)
                /\ users' = users \ {r}
                /\ Cardinality(users') = Cardinality(users) - 1]_vars
    /\ [](\A r \in users : r.id \notin deleted)
    /\ [](\A i \in 1..Len(df) : df[i].id \notin deleted)

\* A read-all after a delete that was followed by another create.
C2_Witness ==
    /\ pc = "view_show"
    /\ deleted # {}
    /\ df # <<>>
    /\ \E i \in 1..Len(df) : \A d \in deleted : df[i].id > d

\* C3: the commit of an update of column F on id X changes nothing but F of
\* the row with id X, which takes the new value; no other step of
\* update_user (id, field and value prompts, retries, error handling)
\* changes any row.
C3_UpdateChangesOneField ==
    /\ [][(pc = "upd_commit" /\ pc' = "upd_close") =>
            LET F == Column(update_choice)
                X == IntValue(user_id)
                v == IF F = "name" THEN new_name ELSE new_value
            IN  /\ Ids(users') = Ids(users)
                /\ Cardinality(users') = Cardinality(users)
                /\ \A r \in users : \E q \in users' :
                     /\ q.id = r.id
                     /\ r.id # X => q = r
                     /\ r.id = X =>
                          /\ q[F] = v
                          /\ \A f \in {"name", "age", "iq", "bench_press"} \ {F} :
                               q[f] = r[f]]_vars
    /\ [][(pc \in {"upd_check", "upd_id", "upd_select", "upd_choice",
                   "upd_update", "upd_except", "upd_close"} \cup ValuePrompts)
            => users' = users]_vars

\* An update has committed a new name in a table of two rows.
C3_Witness ==
    /\ pc = "upd_close"
    /\ out = <<"Name was updated">>
    /\ Cardinality(users) = 2
    /\ users # opStart

\* The scenario of C4: one row was created, it was deleted, nothing else.
C4_Scenario == assigned = {1} /\ deleted = {1} /\ users = {} /\ seq = 1

\* C4 as stated: in that scenario a second delete operation gets to the id
\* prompt, where the deleted id is reported as not found and asked again.
C4_SecondDeletePrompts ==
    [][(C4_Scenario /\ pc = "del_check") => pc' = "del_id"]_vars

\* C4 as amended: in that scenario a second delete operation reports that
\* the database is empty and returns to the menu with its connection closed,
\* without prompting for an id and without changing anything; an id that was
\* deleted earlier is reported as not found, with a new id prompt, only when
\* it is entered while other rows remain (unless the lookup itself fails).
C4_SecondDeleteReportsEmpty ==
    /\ [][(C4_Scenario /\ pc = "del_check") =>
            /\ pc' = "menu"
            /\ out' = <<"Database is empty. Nothing to delete.", MenuPrompt>>
            /\ conn' = Closed
            /\ users' = users]_vars
    /\ [][(pc = "del_select" /\ FitsInt64(user_id)
             /\ IntValue(user_id) \in deleted) =>
            \/ pc' = "del_except"
            \/ /\ pc' = "del_id"
               /\ out' = <<"User with this ID does not exist. Please try again",
                           DeletePrompt>>
               /\ users' = users]_vars

\* The second delete has returned to the menu.
C4_Witness ==
    /\ C4_Scenario
    /\ pc = "menu"
    /\ out = <<"Database is empty. Nothing to delete.", MenuPrompt>>

\* C5: whenever control is back at the menu (or the program has ended) no
\* connection is open; read_db has closed its connection when it returns;
\* and a connection is never closed while a transaction is open on it:
\* what its statements changed was committed or rolled back before.  (The
\* SELECT statements run outside a transaction and leave nothing to end.)
C5_ConnectionsReleased ==
    /\ [](pc \in {"menu", "exited", "crashed"} => conn = Closed /\ ~rconn)
    /\ [](pc \in {"view_show", "del_check", "upd_check", "stats_show",
                  "scatter_check", "scatter_save", "plt_show"} => ~rconn)
    /\ [][(conn.open /\ ~conn'.open) => ~conn.in_transaction]_vars

\* delete_user is about to close after a storage error.
C5_Witness ==
    /\ pc = "del_close"
    /\ out = <<"Error deleting user">>
    /\ conn.open
    /\ ~conn.in_transaction

\* C6 as stated: while the program waits for a line of input no connection
\* is open.
C6_NoConnectionAtAnyPrompt ==
    pc \in Prompts => ~conn.open /\ ~rconn

\* C6 as amended: no connection is held across operations - at the menu
\* prompt (and at the save prompt of the plot) no connection is open; at
\* the prompts of create, delete and update the connection of that
\* operation is open, and read_db's connection is never open at a prompt.
\* (A transaction is in progress at a prompt only in create and update.)
C6_ConnectionHeldOnlyWithinOperation ==
    /\ pc \in {"menu", "scatter_save"} => conn = Closed /\ ~rconn
    /\ pc \in OperationPrompts => conn.open /\ ~rconn
    /\ (pc \in OperationPrompts /\ conn.in_transaction) =>
         (pc \in AddPrompts \cup {"upd_id", "upd_choice"} \cup ValuePrompts
          /\ conn.users = users)

\* update_user waits for a new bench press value.
C6_Witness ==
    /\ pc = "upd_bench"
    /\ conn.open

\* C7: the handler of a storage error rolls back, goes on to close and from
\* there to the menu, never to a prompt, and the table is then what it was
\* when the operation started; a failed read of the listing ends delete and
\* update the same way with no transaction open; a step that reports a
\* validation error or an unknown id stops at a prompt of the same
\* operation with the table untouched and the connection open as it was
\* (or with the transaction a refused INSERT or UPDATE began); no line
\* typed at a prompt aborts the operation; and an id that names no record
\* never aborts it either: unless the database engine fails while looking
\* the id up, delete and update report that the user does not exist and ask
\* for the id again.
C7_StorageErrorAborts ==
    /\ [][(pc \in ExceptHandlers) =>
            /\ pc' = CloseOf(pc)
            /\ \E m \in ErrorReports : Printed(out', m)
            /\ ~conn'.in_transaction
            /\ users' = users]_vars
    /\ [][(pc \in Closes) => (pc' = "menu" /\ users' = users)]_vars
    /\ []((pc \in ExceptHandlers
            \/ (pc \in Closes /\ \E m \in ErrorReports : Printed(out, m)))
          => users = opStart)
    /\ [][(pc \in {"del_check", "upd_check"} /\ df = <<>>) =>
            /\ pc' = "menu"
            /\ ~conn.in_transaction
            /\ users' = users]_vars
    /\ [][(\E m \in RetryReports : Printed(out', m)) =>
            /\ pc' \in OperationPrompts
            /\ conn'.open
            /\ conn' = conn \/ conn' = Begin(conn)
            /\ users' = users]_vars
    /\ [][(pc \in OperationPrompts) =>
            pc' \notin ExceptHandlers \cup Closes \cup {"menu", "exited"}]_vars
    /\ [][(pc \in {"del_select", "upd_select"}
             /\ ~(\E r \in Visible(conn) :
                    FitsInt64(user_id) /\ r.id = IntValue(user_id))
             /\ exc' # "sqlite3.Error") =>
            /\ pc' = IF pc = "del_select" THEN "del_id" ELSE "upd_id"
            /\ \E m \in RetryReports : Printed(out', m)
            /\ conn' = conn
            /\ users' = users]_vars

\* C8 as stated: an invalid new value leads back to the field menu for the
\* id already accepted.
C8_InvalidValueRepromptsFieldMenu ==
    [][(pc \in ValuePrompts /\ pc' # "upd_update") =>
         (pc' = "upd_choice" /\ user_id' = user_id)]_vars

\* C8 as amended: an invalid new value restarts the loop of update_user at
\* the id prompt, so the id is asked again before the field menu; a
\* non-numeric id re-prompts only the id.
C8_InvalidValueRepromptsId ==
    /\ [][(pc \in ValuePrompts /\ pc' # "upd_update") =>
            /\ pc' = "upd_id"
            /\ out'[Len(out')] = UpdatePrompt
            /\ user_id' = Zero
            /\ users' = users]_vars
    /\ [][(pc = "upd_id" /\ pc' # "upd_select") =>
            /\ pc' = "upd_id"
            /\ out' = <<"Invalid input: Please enter a valid ID (number).",
                        UpdatePrompt>>]_vars

\* An out-of-range age has been refused and the id is asked again.
C8_Witness ==
    /\ pc = "upd_id"
    /\ out = <<"Age must be a positive number.", UpdatePrompt>>

\* C9: once initialize_database has returned (its failure ends the program
\* before the loop), the program ends only from the menu and only on choice 7; every
\* other choice leaves it running; an unrecognized choice prints the error
\* message, stays at the menu and changes neither the table nor a
\* connection; every operation ends by returning to the menu; and as long
\* as the program has not ended it can take a step.
C9_MenuLoop ==
    /\ [][(pc' = "exited") =>
            (pc = "exited" \/ (pc = "menu" /\ choice' = <<"7">>))]_vars
    /\ [][(pc = "menu" /\ choice' # <<"7">>) => pc' # "exited"]_vars
    /\ [][(pc = "menu"
             /\ choice' \notin {<<"1">>, <<"2">>, <<"3">>, <<"4">>, <<"5">>,
                                <<"6">>, <<"7">>}) =>
            /\ pc' = "menu"
            /\ out' = <<"Invalid choice. Please enter a number between 1 and 7.",
                        MenuPrompt>>
            /\ users' = users /\ seq' = seq /\ conn' = conn]_vars
    /\ [][(pc \in Closes \cup {"view_show", "stats_show", "plt_show"})
            => pc' = "menu"]_vars
    /\ [][(pc = "scatter_save") =>
            (pc' = "unique_base" \/ pc' = "plt_show")]_vars
    /\ [][(pc = "unique_base" \/ pc = "unique_loop") =>
            (pc' = "unique_loop" \/ pc' = "savefig")]_vars
    /\ [][pc = "savefig" => pc' = "plt_show"]_vars
    /\ [][(pc' = "crashed") => (pc = "start" \/ pc = "crashed")]_vars
    /\ [](pc # "exited" => ENABLED Next)

\* An unrecognized choice was refused while the table holds rows.
C9_Witness ==
    /\ pc = "menu"
    /\ choice = <<"8">>
    /\ out = <<"Invalid choice. Please enter a number between 1 and 7.",
               MenuPrompt>>
    /\ users # {}

\* C10: a row appears only at the commit of a create and its id is greater
\* than every id assigned before, deleted ones included; no other step
\* changes which ids the table holds, a delete only removes ids; and no two
\* rows share an id.
C10_IdsMonotonicAndImmutable ==
    /\ [][\A r \in users' : r.id \notin Ids(users) =>
            /\ pc = "add_commit"
            /\ \A i \in assigned \cup deleted \cup Ids(users) : r.id > i]_vars
    /\ [][(pc # "del_commit") => Ids(users) \subseteq Ids(users')]_vars
    /\ [](\A r \in users : \A q \in users : r.id = q.id => r = q)
    /\ [](Cardinality(Ids(users)) = Cardinality(users))

\* A create has committed after an earlier row was deleted.
C10_Witness ==
    /\ pc = "add_close"
    /\ out = <<"New user was added">>
    /\ deleted # {}
    /\ \E r \in users : \A d \in deleted : r.id > d

\* The k-th name of the sequence scatter.png, scatter2.png, scatter3.png, ...
NameAt(k) ==
    IF k = 1 THEN base_name \o extension
    ELSE base_name \o str(k) \o extension

\* C11: the name a plot is saved under is the first name of the sequence
\* scatter.png, scatter2.png, scatter3.png, ... for which no file exists:
\* it names no existing file, every earlier name of the sequence exists, the
\* figure is written under that name and nothing else in the directory
\* changes, and the probe, once begun, reaches the save.
C11_FirstFreeName ==
    /\ [](pc = "savefig" =>
            /\ filename \notin files
            /\ \E k \in 1..(Cardinality(files) + 1) :
                /\ filename = NameAt(k)
                /\ \A j \in 1..(k - 1) : NameAt(j) \in files)
    /\ [][pc = "savefig" => files' = files \cup {filename}]_vars
    /\ [][pc # "savefig" => files' = files]_vars
    /\ (pc = "unique_base" ~> pc = "savefig")

\* scatter2.png was free although scatter3.png and scatter1.png existed, and
\* the figure was saved as scatter2.png.
C11_Witness ==
    /\ pc = "plt_show"
    /\ filename = NameAt(2)
    /\ {NameAt(1), NameAt(2), NameAt(3), base_name \o <<"1">> \o extension}
         \subseteq files
    /\ out = <<"Scatter saved as">>

\* Every position of update_user, and what it prints after a commit.
UpdatePcs ==
    {"upd_check", "upd_id", "upd_select", "upd_choice", "upd_update",
     "upd_commit", "upd_except", "upd_close"} \cup ValuePrompts
UpdatedReports ==
    {"Bench press was updated", "IQ was updated", "Age was updated",
     "Name was updated"}

\* Rows of after that differ from the row of before with the same id, and
\* the columns in which a row differs.
ChangedRows(before, after) ==
    {r \in before : \E q \in after : q.id = r.id /\ q # r}
ChangedColumns(r, after) ==
    {f \in {"name", "age", "iq", "bench_press"} :
        \E q \in after : q.id = r.id /\ q[f] # r[f]}

\* C12 as stated: update_user, called on a table that holds rows, never
\* returns to the menu without having committed one field.
C12_UpdateNeverReturnsUnwritten ==
    [][(pc \in {"upd_check", "upd_close"} /\ pc' = "menu" /\ users # {}) =>
         \E m \in UpdatedReports : Printed(out, m)]_vars

\* C12, amended: update_user on a table that holds rows commits at most once
\* per invocation; that commit is the first write of the invocation, sets one
\* column, changes no column but that one and no row but one, and ends the
\* loop; the function reaches its close either after that commit or after a
\* storage error with the table as it was, and it returns without prompting
\* only when read_db returned nothing.
C12_UpdateWritesAtMostOneField ==
    /\ [][(pc = "upd_commit" /\ ~conn'.in_transaction) =>
            /\ pc' = "upd_close"
            /\ users = opStart
            /\ stmt.sql = "UPDATE"
            /\ Cardinality(stmt.sets) = 1
            /\ Ids(users') = Ids(users)
            /\ Cardinality(ChangedRows(users, users')) <= 1
            /\ \A r \in ChangedRows(users, users') :
                 ChangedColumns(r, users') \subseteq stmt.sets]_vars
    /\ [][(pc \in UpdatePcs \ {"upd_commit"}) => users' = users]_vars
    /\ [][pc = "upd_close" => pc' = "menu"]_vars
    /\ [](pc = "upd_close" =>
            \/ \E m \in UpdatedReports : Printed(out, m)
            \/ Printed(out, "Error updating user") /\ users = opStart)
    /\ [][(pc = "upd_check" /\ pc' = "menu") =>
            (df = <<>> /\ users' = users)]_vars

\* An update has committed a new bench press for one of two rows.
C12_Witness ==
    /\ pc = "upd_close"
    /\ out = <<"Bench press was updated">>
    /\ Cardinality(users) = 2
    /\ Cardinality(ChangedRows(opStart, users)) = 1

\* Every position of add_new_user, and the four prompts of one pass.
AddPcs ==
    AddPrompts \cup {"add_insert", "add_commit", "add_except", "add_close"}

\* C13 as stated: once all four fields have passed validation in one pass,
\* the INSERT runs, its commit adds exactly one row with those four values,
\* and the operation ends.
C13_CompletePassInsertsRow ==
    /\ [][pc = "add_insert" => pc' = "add_commit"]_vars
    /\ [][pc = "add_commit" =>
            /\ pc' = "add_close"
            /\ Cardinality(users' \ users) = 1
            /\ \A r \in users' \ users :
                 /\ r.name = name
                 /\ r.age = age
                 /\ r.iq = iq
                 /\ r.bench_press = bench_press]_vars

\* C13, amended: in add_new_user a rejected field drops every field of the
\* pass and prompts for the name again; the prompts of a pass follow one
\* another in the order name, age, iq, bench press; the INSERT runs only with
\* four values that passed validation in the current pass; an INSERT that
\* cannot encode the name counts as a rejected field; a commit that
\* succeeds adds exactly one row, with exactly those four values, removes and
\* changes no other row, and ends the operation; nothing else in
\* add_new_user changes the table, and the function closes either after that
\* commit or after a failed statement or commit with the table as it was.
C13_RowOnlyAfterCompletePass ==
    /\ [][(pc \in AddPrompts /\ \E m \in RetryReports : Printed(out', m)) =>
            /\ pc' = "add_name"
            /\ Printed(out', NamePrompt)
            /\ name' = <<>> /\ age' = Zero /\ iq' = Zero /\ bench_press' = Zero
            /\ users' = users
            /\ conn' = conn]_vars
    /\ [][(pc \in AddPrompts /\ ~\E m \in RetryReports : Printed(out', m)) =>
            pc' = CASE pc = "add_name" -> "add_age"
                    [] pc = "add_age" -> "add_iq"
                    [] pc = "add_iq" -> "add_bench"
                    [] pc = "add_bench" -> "add_insert"]_vars
    /\ [][(pc = "add_insert" /\ pc' \notin {"add_commit", "add_except"}) =>
            /\ ~Encodable(name)
            /\ pc' = "add_name"
            /\ Printed(out', NamePrompt)
            /\ name' = <<>> /\ age' = Zero /\ iq' = Zero /\ bench_press' = Zero
            /\ users' = users]_vars
    /\ [](pc \in {"add_insert", "add_commit"} =>
            /\ name # <<>>
            /\ ~LeqZero(age) /\ ~LeqZero(iq) /\ ~LtZero(bench_press))
    /\ [][(pc = "add_commit" /\ ~conn'.in_transaction) =>
            /\ pc' = "add_close"
            /\ users \subseteq users'
            /\ Cardinality(users' \ users) = 1
            /\ \A r \in users' \ users :
                 /\ r.name = name
                 /\ r.age = age
                 /\ r.iq = iq
                 /\ r.bench_press = bench_press]_vars
    /\ [][(pc \in AddPcs /\ users' # users) => pc = "add_commit"]_vars
    /\ [][pc = "add_close" => pc' = "menu"]_vars
    /\ [](pc = "add_close" =>
            \/ out = <<"New user was added">> /\ Cardinality(users \ opStart) = 1
            \/ out = <<"An unexpected error occurred">> /\ users = opStart)

\* A second row has been inserted by a create and the function is closing.
C13_Witness ==
    /\ pc = "add_close"
    /\ out = <<"New user was added">>
    /\ Cardinality(opStart) = 1
    /\ Cardinality(users \ opStart) = 1
    /\ opStart \subseteq users

\* C14: when the table holds no row, delete_user and update_user, having
\* read it, report that there is nothing to delete / update and return to
\* the menu: the next thing printed is the menu prompt, no id is asked for,
\* and from the menu choice to the return no statement has run on the
\* connection, no transaction was opened and the table is untouched.
C14_EmptyTableNothingToDo ==
    /\ [][(pc \in {"del_check", "upd_check"} /\ users = {}) =>
            /\ pc' = "menu"
            /\ out' = <<IF pc = "del_check"
                        THEN "Database is empty. Nothing to delete."
                        ELSE "Database is empty. Nothing to update.",
                        MenuPrompt>>
            /\ conn' = Closed
            /\ stmt' = NoStmt
            /\ users' = users
            /\ seq' = seq]_vars
    /\ [](pc \in {"read_db", "read_finally", "del_check", "upd_check"} =>
            /\ stmt = NoStmt
            /\ ~conn.in_transaction
            /\ ~Printed(out, DeletePrompt)
            /\ ~Printed(out, UpdatePrompt))
    /\ [][(pc \in {"read_db", "read_finally"}) =>
            (users' = users /\ seq' = seq /\ conn' = conn)]_vars

\* update_user has returned to the menu from a table that exists and is
\* empty.
C14_Witness ==
    /\ pc = "menu"
    /\ out = <<"Database is empty. Nothing to update.", MenuPrompt>>
    /\ tableExists
    /\ users = {}
    /\ conn = Closed

\* C15: initialize_database, run at every start of the program on a
\* database file without the table or with the table and whatever rows
\* earlier runs left, leaves the users table in place with the same rows and
\* the same AUTOINCREMENT sequence, and from then on the table exists; a
\* run whose CREATE TABLE fails ends the program at once and leaves the
\* file as it was.
C15_InitializeIdempotent ==
    /\ [][pc = "start" =>
            /\ users' = users
            /\ seq' = seq
            /\ \/ pc' = "menu" /\ tableExists'
               \/ pc' = "crashed" /\ tableExists' = tableExists]_vars
    /\ [](pc \notin {"start", "crashed"} => tableExists)
    /\ [][tableExists => tableExists']_vars

\* The program was started again on a table that holds two rows, and
\* initialize_database has run.
C15_Witness ==
    /\ pc = "menu"
    /\ choice = <<>>
    /\ out = <<"=== User Database Manager ===", MenuPrompt>>
    /\ Cardinality(users) = 2

\* The value n with one decimal, in tenths: f"{n:.1f}" of an integer n >= 0.
Tenths(n) == IF n.mag = <<>> THEN <<>> ELSE Append(n.mag, 0)

\* The float64 nearest to the integer n >= 0 (to the one of even significand
\* on a tie), as an integer.
NearestFloat(n) == PyInt(FALSE, Decimal[Float64[Limbs[n.mag]]])

\* The mean show_statistics prints for each column.
MeanFields ==
    {<<"mean_age", "age">>, <<"mean_iq", "iq">>,
     <<"mean_bench_press", "bench_press">>}

\* C16 as stated: show_statistics on an empty record set prints that there
\* is no data and none of the six figures; on exactly one record it prints a
\* count of 1, means equal to that record's age, iq and bench press (to one
\* decimal), and a largest and a smallest bench press both equal to that
\* record's.
C16_MeansEqualRecord ==
    /\ [][(pc = "stats_show" /\ df = <<>>) =>
            /\ out' = <<"No data available for statistics", MenuPrompt>>
            /\ report' = NoReport
            /\ pc' = "menu"]_vars
    /\ [][(pc = "stats_show" /\ Len(df) = 1) =>
            /\ Printed(out', "Data Statistics:")
            /\ report'.count = 1
            /\ \A f \in MeanFields : report'[f[1]] = Tenths(df[1][f[2]])
            /\ report'.max_bench_press = df[1].bench_press
            /\ report'.min_bench_press = df[1].bench_press
            /\ pc' = "menu"]_vars
    /\ [][pc # "stats_show" => report' = NoReport]_vars

\* C16 as amended: show_statistics on an empty record set prints that there
\* is no data and none of the six figures; on exactly one record it prints a
\* count of 1, means equal to the float64 nearest to that record's age, iq
\* and bench press (to one decimal), which is the record's own value
\* whenever it is at most 2^53, and a largest and a smallest bench press
\* both equal to that record's.
C16_StatisticsEmptyAndSingle ==
    /\ [][(pc = "stats_show" /\ df = <<>>) =>
            /\ out' = <<"No data available for statistics", MenuPrompt>>
            /\ report' = NoReport
            /\ pc' = "menu"]_vars
    /\ [][(pc = "stats_show" /\ Len(df) = 1) =>
            /\ Printed(out', "Data Statistics:")
            /\ report'.count = 1
            /\ \A f \in MeanFields :
                 /\ report'[f[1]] = Tenths(NearestFloat(df[1][f[2]]))
                 /\ ~NatLess(TwoTo53.mag, df[1][f[2]].mag) =>
                      report'[f[1]] = Tenths(df[1][f[2]])
            /\ report'.max_bench_press = df[1].bench_press
            /\ report'.min_bench_press = df[1].bench_press
            /\ pc' = "menu"]_vars
    /\ [][pc # "stats_show" => report' = NoReport]_vars

\* The statistics of a table of one row are on the screen: its age is above
\* 2^53 and is not a float64, so the mean age printed is not the age; its
\* iq is 100 and its bench press 50, and their means are 100.0 and 50.0.
C16_Witness ==
    /\ pc = "menu"
    /\ report.count = 1
    /\ \E r \in users :
         /\ users = {r}
         /\ NatLess(TwoTo53.mag, r.age.mag)
         /\ report.mean_age # Tenths(r.age)
         /\ report.mean_iq = <<1, 0, 0, 0>>
         /\ report.mean_bench_press = <<5, 0, 0>>
         /\ report.max_bench_press = r.bench_press
         /\ report.min_bench_press = r.bench_press

\* C17: draw_scatter on no records draws nothing (it reports that there is
\* no data and returns); on one record it draws the one point without the
\* correlation text; on two or more records it draws every point and adds
\* the correlation text.
C17_CorrelationOnlyAboveOne ==
    /\ [][(pc = "scatter_check" /\ df = <<>>) =>
            /\ plot' = NoPlot
            /\ out' = <<"No data available for visualization", MenuPrompt>>
            /\ pc' = "menu"]_vars
    /\ [][(pc = "scatter_check" /\ df # <<>>) =>
            /\ Len(plot'.points) = Len(df)
            /\ \A i \in 1..Len(df) :
                 plot'.points[i] = <<df[i].iq, df[i].bench_press>>
            /\ plot'.annotated <=> (Len(df) > 1)
            /\ pc' = "scatter_save"]_vars
    /\ [](plot.annotated => Len(plot.points) > 1)
    /\ [](pc \notin {"scatter_save", "unique_base", "unique_loop", "savefig",
                     "plt_show"} => plot = NoPlot)

\* The single row of the table is drawn, without the correlation text, and
\* the program asks whether to save the figure.
C17_Witness ==
    /\ pc = "scatter_save"
    /\ Len(plot.points) = 1
    /\ ~plot.annotated
    /\ Cardinality(users) = 1

\* What each operation prints after its commit.
CommitReports ==
    UpdatedReports \cup {"New user was added", "User was deleted from DataBase"}

\* C18: once add_new_user, or delete_user / update_user on a table with
\* rows, is prompting, it reaches its close only after its commit or after a
\* failed statement or commit; a line typed at a prompt never leads out of
\* the loop by itself, and an id that names no record leads back to the id
\* prompt unless the database engine fails while looking it up.
C18_OperatorCannotCancel ==
    /\ [](pc \in Closes =>
            \/ \E m \in CommitReports : Printed(out, m)
            \/ \E m \in ErrorReports : Printed(out, m))
    /\ [][(pc \in OperationPrompts) =>
            pc' \in OperationPrompts
                      \cup {"add_insert", "del_select", "upd_select",
                            "upd_update"}]_vars
    /\ [][(pc \in {"del_select", "upd_select"}
             /\ ~(\E r \in users :
                    FitsInt64(user_id) /\ r.id = IntValue(user_id))
             /\ exc' # "sqlite3.Error") =>
            /\ pc' = IF pc = "del_select" THEN "del_id" ELSE "upd_id"
            /\ Printed(out', "User with this ID does not exist. Please try again")
            /\ users' = users]_vars

\* What each caller of read_db prints when the DataFrame is empty.
NoDataReport(p) ==
    CASE p = "del_check" -> "Database is empty. Nothing to delete."
      [] p = "upd_check" -> "Database is empty. Nothing to update."
      [] p = "view_show" -> "Database is empty"
      [] p = "stats_show" -> "No data available for statistics"
      [] p = "scatter_check" -> "No data available for visualization"

\* C19: a read that fails is reported by read_db, hands its caller an empty
\* DataFrame and changes nothing stored; and a caller handed an empty
\* DataFrame does the same thing whether or not the table holds rows:
\* delete_user and update_user report an empty database, close their
\* connection and return with no statement run, view-all, statistics and
\* plot report that there is no data, every one of them returns to the menu,
\* and the stored rows stay as they were.
C19_ReadFailureLooksEmpty ==
    /\ [][pc = "read_db" =>
            /\ pc' = "read_finally"
            /\ users' = users /\ seq' = seq /\ tableExists' = tableExists
            /\ (df' = SelectAll(users)
                 \/ (df' = <<>> /\ Printed(out', "Error reading database")))]_vars
    /\ [][pc = "read_finally" =>
            /\ pc' \in {"del_check", "upd_check", "view_show", "stats_show",
                        "scatter_check"}
            /\ df' = df
            /\ users' = users]_vars
    /\ [][(pc \in {"del_check", "upd_check", "view_show", "stats_show",
                   "scatter_check"} /\ df = <<>>) =>
            /\ pc' = "menu"
            /\ out' = <<NoDataReport(pc), MenuPrompt>>
            /\ conn' = Closed
            /\ stmt' = NoStmt
            /\ report' = NoReport
            /\ plot' = NoPlot
            /\ users' = users /\ seq' = seq]_vars

\* delete_user has reported an empty database while the table holds a row:
\* its read had failed.
C19_Witness ==
    /\ pc = "menu"
    /\ out = <<"Database is empty. Nothing to delete.", MenuPrompt>>
    /\ users # {}
    /\ conn = Closed

====
